---- MODULE Spec2Model ----
(***************************************************************************)
(* regoer: translation of AWS IAM policy statements into Rego rules        *)
(* (src/src/parser.rs, statement.rs, conditions.rs, functions.rs,          *)
(* expression.rs, interpolation.rs, lib.rs) and the decision the emitted   *)
(* rules give for a request.                                               *)
(*                                                                         *)
(* Strings are sequences of one-character strings.  An IR expression       *)
(* (expression.rs, enum Expr) is a record whose field k names the variant. *)
(* A runtime value of the emitted program is a record whose field t is    *)
(* the JSON type, with the payload in a field named after the type.        *)
(***************************************************************************)
EXTENDS Integers, Sequences, FiniteSets, TLC

VARIABLES pc, doc, policy, program, request, decision,
          scopeIn, scopeOut, scopeReq, scopeRes,
          condIn, condOut, condCtx, condRes,
          strIn, strOut, attrIn, attrOut,
          policies, calls, outcome, evaluator,
          scanResult, collected, scanLastEnd, scanPos

vars == <<pc, doc, policy, program, request, decision,
          scopeIn, scopeOut, scopeReq, scopeRes,
          condIn, condOut, condCtx, condRes,
          strIn, strOut, attrIn, attrOut,
          policies, calls, outcome, evaluator,
          scanResult, collected, scanLastEnd, scanPos>>

mainVars == <<doc, policy, program, request, decision>>
scopeVars == <<scopeIn, scopeOut, scopeReq, scopeRes>>
condVars == <<condIn, condOut, condCtx, condRes>>
strVars == <<strIn, strOut, attrIn, attrOut>>
builderVars == <<policies, calls, outcome, evaluator>>
scanVars == <<scanResult, collected, scanLastEnd, scanPos>>

(***************************************************************************)
(* Bounds of the exploration.                                              *)
(***************************************************************************)
MaxList == 2
MaxCtx == 2
MaxStatements == 2
MaxParts == 3
MaxCalls == 2

SeqsUpTo(S, n) == UNION {[1..m -> S] : m \in 0..n}

(***************************************************************************)
(* String helpers (std::str).                                              *)
(***************************************************************************)
Contains(s, c) == \E i \in 1..Len(s) : s[i] = c

RECURSIVE Replace(_, _, _)
Replace(s, from, to) ==
  IF s = <<>> THEN <<>>
  ELSE <<IF Head(s) = from THEN to ELSE Head(s)>> \o Replace(Tail(s), from, to)

\* the index of the last occurrence of c in s, 0 when there is none
RECURSIVE LastIndexOf(_, _, _)
LastIndexOf(s, c, i) ==
  IF i = 0 THEN 0 ELSE IF s[i] = c THEN i ELSE LastIndexOf(s, c, i - 1)

\* the segments of s between the occurrences of c
RECURSIVE Split(_, _)
Split(s, c) ==
  IF ~Contains(s, c) THEN <<s>>
  ELSE LET i == CHOOSE j \in 1..Len(s) : s[j] = c /\ \A h \in 1..(j - 1) : s[h] # c
       IN <<SubSeq(s, 1, i - 1)>> \o Split(SubSeq(s, i + 1, Len(s)), c)

STAR == <<"*">>
INPUT_PREFIX == <<"i", "n", "p", "u", "t", ".">>
NullName == <<"n", "u", "l", "l">>
ItemName == <<"i", "t", "e", "m">>
ValName == <<"v", "a", "l">>

(***************************************************************************)
(* values.rs: Effect, Value<T>, Scope<T>.                                  *)
(***************************************************************************)
One(x) == [tag |-> "One", one |-> x]
Many(l) == [tag |-> "Many", list |-> l]
ScopeId(v) == [neg |-> FALSE, val |-> v]

(***************************************************************************)
(* expression.rs: the constructors of Expr.                                *)
(***************************************************************************)
Var(name) == [k |-> "Var", name |-> name]
Call(f, xs) == [k |-> "Call", name |-> f, xs |-> xs]
List(xs) == [k |-> "List", xs |-> xs]
AnyIn(x) == [k |-> "AnyIn", x |-> x]
BoolE(b) == [k |-> "Bool", b |-> b]
IntE(i) == [k |-> "Int", i |-> i]
Plain(s) == [k |-> "Str", s |-> s]
Tmpl(fmt, xs) == [k |-> "Tmpl", s |-> fmt, xs |-> xs]
Neg(x) == [k |-> "Neg", x |-> x]
Bin(op, l, r) == [k |-> op, l |-> l, r |-> r]
Every(v, it, body) == [k |-> "Every", v |-> v, ys |-> it, z |-> body]
Item == Var(ItemName)
ExprEvery(list, body) == Every(Item, List(list), body)
StatementE(effect, body, conds) ==
  [k |-> "Statement", m |-> effect, xs |-> body, ys |-> conds]


(***************************************************************************)
(* parser.rs: Result<_, Error>.  err is "none" for Ok.                     *)
(***************************************************************************)
Ok(x) == [err |-> "none", val |-> x]
Err(e) == [err |-> e, val |-> <<>>]
IsOk(r) == r.err = "none"

(***************************************************************************)
(* interpolation.rs                                                        *)
(***************************************************************************)
Whitespace == {" ", "\t", "\n"}
Digits == {"0", "1", "2", "3", "4", "5", "6", "7", "8", "9"}

\* s[a..b) with 0-based byte offsets, as Rust slices
Slice(s, a, b) == SubSeq(s, a + 1, b)

\* str::find from offset `from`: the 0-based offset of the first occurrence, -1 for None
Find(s, pat, from) ==
  LET hits == {i \in from..(Len(s) - Len(pat)) : Slice(s, i, i + Len(pat)) = pat}
  IN IF hits = {} THEN -1 ELSE CHOOSE i \in hits : \A j \in hits : i <= j

RECURSIVE TrimStart(_)
TrimStart(s) == IF s # <<>> /\ Head(s) \in Whitespace THEN TrimStart(Tail(s)) ELSE s
RECURSIVE TrimEnd(_)
TrimEnd(s) ==
  IF s # <<>> /\ s[Len(s)] \in Whitespace THEN TrimEnd(SubSeq(s, 1, Len(s) - 1)) ELSE s
Trim(s) == TrimEnd(TrimStart(s))

DOLLAR_BRACE == <<"$", "{">>

\* a mutation: the expression between the braces is not trimmed
HandleSpecialUntrimmed(expr) ==
  IF expr \in {<<"*">>, <<"?">>, <<"$">>} THEN <<expr>> ELSE <<>>

handle_special_variable(expr) ==
  LET t == Trim(expr)
  IN IF t \in {<<"*">>, <<"?">>, <<"$">>} THEN <<t>> ELSE <<>>

extract_quoted_string(s) ==
  LET t == Trim(s)
  IN IF Len(t) >= 2 /\ t[1] = "'" /\ t[Len(t)] = "'" THEN <<SubSeq(t, 2, Len(t) - 1)>>
     ELSE IF Len(t) >= 2 /\ t[1] = "\"" /\ t[Len(t)] = "\"" THEN <<SubSeq(t, 2, Len(t) - 1)>>
     ELSE <<>>

\* (var_part, default_value): default_value is <<>> for None, <<d>> for Some(d)
parse_variable_with_default(expr) ==
  LET comma == Find(expr, <<",">>, 0)
  IN IF comma >= 0
     THEN LET var_part == Trim(Slice(expr, 0, comma))
              default_part == Trim(Slice(expr, comma + 1, Len(expr)))
              q == extract_quoted_string(default_part)
          IN IF q # <<>> THEN <<var_part, q>> ELSE <<expr, <<>>>>
     ELSE <<expr, <<>>>>

validate_variable_expr(expr) ==
  IF expr = <<>> THEN "EmptyExpression"
  ELSE IF Find(expr, DOLLAR_BRACE, 0) >= 0 THEN "NestedInterpolation"
  ELSE IF Contains(expr, "}") THEN "InvalidCharacters"
  ELSE IF Cardinality({i \in 1..Len(expr) : expr[i] = "/"}) > 1 THEN "TooManySlashes"
  ELSE IF ~(\A i \in 1..Len(expr) :
              expr[i] \in {"a", "b", "c", "k", "q", "A", "B"} \cup Digits
                \/ expr[i] \in {"_", "-", ":", ".", "/"})
       THEN "InvalidCharacters"
  ELSE "none"

RECURSIVE substitute_variables(_)
RECURSIVE SubstituteLoop(_, _, _, _, _)

\* Expr::str (expression.rs): Result<Expr, Error>
ExprStr(s) == substitute_variables(s)

\* push(f(item)?) in a loop: the first error, or the item before the rest
TryPush(h, t) == IF ~IsOk(h) THEN h ELSE IF ~IsOk(t) THEN t ELSE Ok(<<h.val>> \o t.val)

\* extensions.rs map_expr with Expr::str: the first error, or the list of expressions
RECURSIVE MapExprStr(_)
MapExprStr(l) ==
  IF l = <<>> THEN Ok(<<>>) ELSE TryPush(ExprStr(Head(l)), MapExprStr(Tail(l)))

\* the value returned after the loop
StrOf(result, vs) == Ok(IF vs # <<>> THEN Tmpl(result, vs) ELSE Plain(result))

\* the variable pushed for a validated expression: input.<path>, or with a
\* default object.get(object, [path...], default)
SubstitutePush(template, result, vs, next, default_value, variable) ==
  IF default_value = <<>>
  THEN SubstituteLoop(template, result \o <<"%", "s">>, Append(vs, Var(variable)), next, next)
  ELSE IF ~IsOk(MapExprStr(Tail(Split(variable, "."))))
  THEN MapExprStr(Tail(Split(variable, ".")))
  ELSE IF ~IsOk(ExprStr(default_value[1])) THEN ExprStr(default_value[1])
  ELSE SubstituteLoop(template, result \o <<"%", "s">>,
                      Append(vs, Call("object.get",
                                      <<Var(Head(Split(variable, "."))),
                                        List(MapExprStr(Tail(Split(variable, "."))).val),
                                        ExprStr(default_value[1]).val>>)),
                      next, next)

\* pd is (var_part, default_value) of the expression between the braces
SubstituteVar(template, result, vs, next, pd) ==
  IF validate_variable_expr(pd[1]) # "none" THEN Err(validate_variable_expr(pd[1]))
  ELSE SubstitutePush(template, result, vs, next, pd[2],
                      INPUT_PREFIX \o Replace(Replace(pd[1], ":", "."), "/", "."))

\* var_expr is the text between the braces, next the offset after the closing one
SubstituteExpr(template, result, vs, next, var_expr) ==
  IF handle_special_variable(var_expr) # <<>>
  THEN SubstituteLoop(template, result \o handle_special_variable(var_expr)[1], vs, next, next)
  ELSE SubstituteVar(template, result, vs, next, parse_variable_with_default(var_expr))

\* a scan that copies the rest of the template from the unclosed "${" on,
\* and not from last_end
SubstituteAtCopiesFromStart(template, result, vs, last_end, start) ==
  IF start < 0 \/ Find(template, <<"}">>, start + 2) < 0
  THEN StrOf(result \o Slice(template, IF start < 0 THEN last_end ELSE start, Len(template)),
             vs)
  ELSE SubstituteExpr(template, result \o Slice(template, last_end, start), vs,
                      Find(template, <<"}">>, start + 2) + 1,
                      Slice(template, start + 2, Find(template, <<"}">>, start + 2)))

\* start is the offset of the next "${" (-1 for None); without it, or without
\* a closing brace after it, the rest of the template is copied
SubstituteAt(template, result, vs, last_end, start) ==
  IF start < 0 \/ Find(template, <<"}">>, start + 2) < 0
  THEN StrOf(result \o Slice(template, last_end, Len(template)), vs)
  ELSE SubstituteExpr(template, result \o Slice(template, last_end, start), vs,
                      Find(template, <<"}">>, start + 2) + 1,
                      Slice(template, start + 2, Find(template, <<"}">>, start + 2)))

\* the while loop of substitute_variables; result, vars, last_end, pos are its locals
SubstituteLoop(template, result, vs, last_end, pos) ==
  IF ~(pos < Len(template)) THEN StrOf(result, vs)
  ELSE SubstituteAt(template, result, vs, last_end, Find(template, DOLLAR_BRACE, pos))

substitute_variables(template) ==
  IF Find(template, DOLLAR_BRACE, 0) < 0 THEN Ok(Plain(template))
  ELSE SubstituteLoop(template, <<>>, <<>>, 0, 0)

(***************************************************************************)
(* functions.rs: Func                                                      *)
(***************************************************************************)
FuncGlob(lhs, rhs) == Call("glob.match", <<lhs, Var(NullName), rhs>>)
FuncLower(lhs) == Call("lower", <<lhs>>)
FuncCidrContains(cidr, ip) == Call("net.cidr_contains", <<cidr, ip>>)
FuncDatetime(dt) == Call("time.parse_rfc3339_ns", <<dt>>)

to_array(expr) ==
  IF expr.k # "Var" THEN expr
  ELSE LET path == expr.name
           dot == LastIndexOf(path, ".", Len(path))
           var == IF dot > 0
                  THEN Call("object.get",
                            <<Var(SubSeq(path, 1, dot - 1)),
                              Var(<<"\"">> \o SubSeq(path, dot + 1, Len(path)) \o <<"\"">>),
                              List(<<>>)>>)
                  ELSE expr
       IN Call("to_array", <<var>>)

(***************************************************************************)
(* statement.rs                                                            *)
(***************************************************************************)
\* a mutation: the action is handled before the principal
ScopeTypesActionFirst == <<"Action", "Principal", "Resource">>

ScopeTypes == <<"Principal", "Action", "Resource">>

ScopeKey(kind) ==
  CASE kind = "Principal" -> <<"p", "r", "i", "n", "c", "i", "p", "a", "l">>
    [] kind = "Action" -> <<"a", "c", "t", "i", "o", "n">>
    [] kind = "Resource" -> <<"r", "e", "s", "o", "u", "r", "c", "e">>

input_var(kind) == INPUT_PREFIX \o ScopeKey(kind)

\* the (op, id) pair chosen by the first match of Statement::generate
ScopeOp(negated, l, r) == Bin(IF negated THEN "Ne" ELSE "Eq", l, r)
ScopeIdOp(negated, x) == IF negated THEN Neg(x) ELSE x

\* a mutation of the wildcard test: only a single value "*" is a wildcard
NoListWildcard(list) == FALSE

\* a mutation of the wildcard test: a list without values is no wildcard
AllStarOfSome(list) == list # <<>> /\ \A i \in 1..Len(list) : list[i] = STAR

AllStar(list) == \A i \in 1..Len(list) : list[i] = STAR

\* a mutation of the glob test on a list: globbing is never chosen
NeverGlob(list) == FALSE

AnyGlob(list) == \E i \in 1..Len(list) : Contains(list[i], "*")

\* the arms Value::One of the match of Statement::generate; e is Expr::str(one)
ScopeOne(negated, ctx, one, e) ==
  IF one = STAR THEN Ok(<<>>)
  ELSE IF ~IsOk(e) THEN e
  ELSE IF Contains(one, "*")
  THEN Ok(<<ScopeIdOp(negated, Call("glob.match", <<e.val, Var(NullName), ctx>>))>>)
  ELSE Ok(<<ScopeOp(negated, ctx, e.val)>>)

\* the arms Value::Many; es is list.map_expr(Expr::str)
ScopeMany(negated, ctx, list, es) ==
  IF AllStar(list) THEN Ok(<<>>)
  ELSE IF ~IsOk(es) THEN es
  ELSE IF AnyGlob(list)
  THEN IF ~negated
       THEN Ok(<<ScopeIdOp(negated, FuncGlob(AnyIn(List(es.val)), ctx))>>)
       ELSE Ok(<<ExprEvery(es.val, ScopeIdOp(negated, FuncGlob(Item, ctx)))>>)
  ELSE IF ~negated
       THEN Ok(<<ScopeOp(negated, AnyIn(List(es.val)), ctx)>>)
       ELSE Ok(<<ExprEvery(es.val, ScopeOp(negated, Item, ctx))>>)

\* one iteration of the loop of Statement::generate: Ok(<<>>) for None,
\* Ok(<<expr>>) for Some(expr), or the error of Expr::str
GenerateScope(kind, scope) ==
  IF scope.val.tag = "One"
  THEN ScopeOne(scope.neg, Var(input_var(kind)), scope.val.one,
                ExprStr(scope.val.one))
  ELSE ScopeMany(scope.neg, Var(input_var(kind)), scope.val.list,
                 MapExprStr(scope.val.list))

ScopeOf(stmt, kind) ==
  CASE kind = "Principal" -> stmt.principals
    [] kind = "Action" -> stmt.actions
    [] kind = "Resource" -> stmt.resources

\* the first error, or the expressions of h before those of t
TryConcat(h, t) == IF ~IsOk(h) THEN h ELSE IF ~IsOk(t) THEN t ELSE Ok(h.val \o t.val)

\* the loop over the three scopes, from the i-th on
RECURSIVE GenerateLoop(_, _)
GenerateLoop(stmt, i) ==
  IF i > Len(ScopeTypes) THEN Ok(<<>>)
  ELSE TryConcat(GenerateScope(ScopeTypes[i], ScopeOf(stmt, ScopeTypes[i])),
                 GenerateLoop(stmt, i + 1))

\* Ok(Expr::Statement(self.effect, exprs, self.conditions))
StatementOf(stmt, exprs) ==
  IF ~IsOk(exprs) THEN exprs ELSE Ok(StatementE(stmt.effect, exprs.val, stmt.conditions))

\* Statement::generate
Generate(stmt) == StatementOf(stmt, GenerateLoop(stmt, 1))

(***************************************************************************)
(* conditions.rs                                                           *)
(***************************************************************************)
NegatedOperators ==
  {"StringNotEquals", "StringNotEqualsIgnoreCase", "NumericNotEquals",
   "StringNotLike", "NotIpAddress", "DateNotEquals"}

StringOperators ==
  {"StringEquals", "StringNotEquals", "StringEqualsIgnoreCase",
   "StringNotEqualsIgnoreCase", "StringLike", "StringNotLike"}
NumericOperators ==
  {"NumericEquals", "NumericNotEquals", "NumericLessThan", "NumericLessThanEquals",
   "NumericGreaterThan", "NumericGreaterThanEquals"}
DateOperators ==
  {"DateEquals", "DateNotEquals", "DateGreaterThan", "DateGreaterThanEquals",
   "DateLessThan", "DateLessThanEquals"}
IpOperators == {"IpAddress", "NotIpAddress"}
CompareOperators == StringOperators \cup NumericOperators \cup DateOperators \cup IpOperators

\* Negatable::is_neg
is_neg(operator) == operator.operator \in NegatedOperators

\* the closure build_condition passes to compare for each operator
BuildExpr(op, polvalue, ctxvalue) ==
  CASE op = "StringEquals" -> Bin("Eq", polvalue, ctxvalue)
    [] op = "StringNotEquals" -> Bin("Ne", polvalue, ctxvalue)
    [] op = "StringEqualsIgnoreCase" -> Bin("Eq", FuncLower(polvalue), FuncLower(ctxvalue))
    [] op = "StringNotEqualsIgnoreCase" -> Bin("Ne", FuncLower(polvalue), FuncLower(ctxvalue))
    [] op = "StringLike" -> FuncGlob(polvalue, ctxvalue)
    [] op = "StringNotLike" -> Neg(FuncGlob(polvalue, ctxvalue))
    [] op = "NumericEquals" -> Bin("Eq", polvalue, ctxvalue)
    [] op = "NumericNotEquals" -> Bin("Ne", polvalue, ctxvalue)
    [] op = "NumericLessThan" -> Bin("Lt", ctxvalue, polvalue)
    [] op = "NumericLessThanEquals" -> Bin("Lte", ctxvalue, polvalue)
    [] op = "NumericGreaterThan" -> Bin("Gt", ctxvalue, polvalue)
    [] op = "NumericGreaterThanEquals" -> Bin("Gte", ctxvalue, polvalue)
    [] op = "DateEquals" -> Bin("Eq", FuncDatetime(polvalue), FuncDatetime(ctxvalue))
    [] op = "DateNotEquals" -> Bin("Ne", FuncDatetime(polvalue), FuncDatetime(ctxvalue))
    [] op = "DateGreaterThan" -> Bin("Gt", FuncDatetime(ctxvalue), FuncDatetime(polvalue))
    [] op = "DateGreaterThanEquals" -> Bin("Gte", FuncDatetime(ctxvalue), FuncDatetime(polvalue))
    [] op = "DateLessThan" -> Bin("Lt", FuncDatetime(ctxvalue), FuncDatetime(polvalue))
    [] op = "DateLessThanEquals" -> Bin("Lte", FuncDatetime(ctxvalue), FuncDatetime(polvalue))
    [] op = "IpAddress" -> FuncCidrContains(polvalue, ctxvalue)
    [] op = "NotIpAddress" -> Neg(FuncCidrContains(polvalue, ctxvalue))

\* a mutation of apply: the negated ForAnyValue form quantifies like the positive one
ApplyNegatedAnyAsPositive(operator, ctxvalue, polvalues, negative) ==
  LET op == operator.operator
  IN IF operator.quantifier = "ForAnyValue"
     THEN BuildExpr(op, AnyIn(List(polvalues)), AnyIn(to_array(ctxvalue)))
     ELSE IF negative
     THEN Every(Item, to_array(ctxvalue),
                Every(Var(ValName), List(polvalues), BuildExpr(op, Var(ValName), Item)))
     ELSE Every(Item, to_array(ctxvalue), BuildExpr(op, AnyIn(List(polvalues)), Item))

\* Negatable::apply
apply(operator, ctxvalue, polvalues, negative) ==
  IF negative
  THEN Every(Item, to_array(ctxvalue),
             Every(Var(ValName), List(polvalues),
                   BuildExpr(operator.operator, Var(ValName), Item)))
  ELSE IF operator.quantifier = "ForAnyValue"
  THEN BuildExpr(operator.operator, AnyIn(List(polvalues)), AnyIn(to_array(ctxvalue)))
  ELSE Every(Item, to_array(ctxvalue),
             BuildExpr(operator.operator, AnyIn(List(polvalues)), Item))

to_bool(s) ==
  IF s.t = "Bool" THEN Ok(BoolE(s.b))
  ELSE IF s.t = "String" /\ s.s = <<"t", "r", "u", "e">> THEN Ok(BoolE(TRUE))
  ELSE IF s.t = "String" /\ s.s = <<"f", "a", "l", "s", "e">> THEN Ok(BoolE(FALSE))
  ELSE Err("InvalidType")

to_str(s) == IF s.t = "String" THEN ExprStr(s.s) ELSE Err("InvalidType")

DigitValue(c) ==
  CASE c = "0" -> 0 [] c = "1" -> 1 [] c = "2" -> 2 [] c = "3" -> 3 [] c = "4" -> 4
    [] c = "5" -> 5 [] c = "6" -> 6 [] c = "7" -> 7 [] c = "8" -> 8 [] c = "9" -> 9

RECURSIVE DecimalValue(_, _)
DecimalValue(s, acc) ==
  IF s = <<>> THEN acc ELSE DecimalValue(Tail(s), 10 * acc + DigitValue(Head(s)))

\* the digits of i64::MAX, 9223372036854775807
I64Max ==
  <<"9", "2", "2", "3", "3", "7", "2", "0", "3", "6", "8", "5", "4", "7", "7", "5", "8", "0", "7">>

RECURSIVE StripZeros(_)
StripZeros(digits) ==
  IF Len(digits) > 1 /\ Head(digits) = "0" THEN StripZeros(Tail(digits)) ELSE digits

\* a > b for two digit strings of the same length; carry is added to the last digit of b
RECURSIVE DigitsGreater(_, _, _)
DigitsGreater(a, b, carry) ==
  IF a = <<>> THEN FALSE
  ELSE IF Len(a) = 1 THEN DigitValue(a[1]) > DigitValue(b[1]) + carry
  ELSE IF a[1] # b[1] THEN DigitValue(a[1]) > DigitValue(b[1])
  ELSE DigitsGreater(Tail(a), Tail(b), carry)

\* the magnitude does not fit: above i64::MAX, or above i64::MAX + 1 when negative
Overflows(digits, negative) ==
  \/ Len(digits) > Len(I64Max)
  \/ Len(digits) = Len(I64Max) /\ DigitsGreater(digits, I64Max, IF negative THEN 1 ELSE 0)

\* str::parse::<i64>: an optional sign and at least one digit, within 64 bits
ParseInt(s) ==
  IF s = <<>> THEN Err("InvalidType")
  ELSE IF Head(s) \in {"+", "-"} /\ Len(s) = 1 THEN Err("InvalidType")
  ELSE IF \E i \in (IF Head(s) \in {"+", "-"} THEN 2 ELSE 1)..Len(s) : s[i] \notin Digits
  THEN Err("InvalidType")
  ELSE IF Overflows(StripZeros(IF Head(s) \in {"+", "-"} THEN Tail(s) ELSE s), Head(s) = "-")
  THEN Err("InvalidType")
  ELSE Ok(IF Head(s) = "-" THEN 0 - DecimalValue(Tail(s), 0)
          ELSE DecimalValue(IF Head(s) = "+" THEN Tail(s) ELSE s, 0))

to_int(s) ==
  IF s.t = "Integer" THEN Ok(IntE(s.i))
  ELSE IF s.t = "String"
  THEN IF IsOk(ParseInt(s.s)) THEN Ok(IntE(ParseInt(s.s).val)) ELSE ParseInt(s.s)
  ELSE Err("InvalidType")

Convert(converter, s) ==
  CASE converter = "to_bool" -> to_bool(s)
    [] converter = "to_str" -> to_str(s)
    [] converter = "to_int" -> to_int(s)

\* a conversion of a list that leaves out the values it cannot convert
RECURSIVE MapConvertSkipsFailures(_, _)
MapConvertSkipsFailures(converter, l) ==
  IF l = <<>> THEN Ok(<<>>)
  ELSE IF ~IsOk(Convert(converter, Head(l))) THEN MapConvertSkipsFailures(converter, Tail(l))
  ELSE TryPush(Convert(converter, Head(l)), MapConvertSkipsFailures(converter, Tail(l)))

RECURSIVE MapConvert(_, _)
MapConvert(converter, l) ==
  IF l = <<>> THEN Ok(<<>>)
  ELSE TryPush(Convert(converter, Head(l)), MapConvert(converter, Tail(l)))

\* Ok(Value::One(..)) / Ok(Value::Many(..)) of the converted value(s)
ValueOf(tag, r) ==
  IF ~IsOk(r) THEN r ELSE Ok(IF tag = "One" THEN One(r.val) ELSE Many(r.val))

\* Value::map (values.rs) with a converter
ValueMap(values, converter) ==
  IF values.tag = "One" THEN ValueOf("One", Convert(converter, values.one))
  ELSE ValueOf("Many", MapConvert(converter, values.list))

resolve(var) ==
  IF var.qualifier # <<>>
  THEN Var(INPUT_PREFIX \o var.qualifier[1] \o <<".">> \o Replace(var.value, "/", "."))
  ELSE Var(INPUT_PREFIX \o Replace(var.value, "/", "."))

\* compare, the arm Value::One
CompareOne(operator, ctxvalue, polvalue) ==
  IF operator.quantifier # "None"
  THEN apply(operator, ctxvalue, <<polvalue>>, is_neg(operator))
  ELSE BuildExpr(operator.operator, polvalue, ctxvalue)

\* a mutation of compare: a negated operator folds the list like a positive one
CompareManyNoEvery(operator, ctxvalue, polvalues) ==
  IF operator.quantifier # "None"
  THEN apply(operator, ctxvalue, polvalues, is_neg(operator))
  ELSE BuildExpr(operator.operator, AnyIn(List(polvalues)), ctxvalue)

\* compare, the arm Value::Many
CompareMany(operator, ctxvalue, polvalues) ==
  IF operator.quantifier # "None"
  THEN apply(operator, ctxvalue, polvalues, is_neg(operator))
  ELSE IF ~is_neg(operator)
  THEN BuildExpr(operator.operator, AnyIn(List(polvalues)), ctxvalue)
  ELSE ExprEvery(polvalues, BuildExpr(operator.operator, Item, ctxvalue))

\* a Bool arm that puts the context attribute first for a list as well
BoolExprContextFirst(ctxvalue, m) ==
  IF ~IsOk(m) THEN m
  ELSE IF m.val.tag = "One" THEN Ok(Bin("Eq", ctxvalue, m.val.one))
  ELSE Ok(Bin("Eq", ctxvalue, AnyIn(List(m.val.list))))

\* the closure of the try_fold of the Bool arm; m is values.map(to_bool)
BoolExpr(ctxvalue, m) ==
  IF ~IsOk(m) THEN m
  ELSE IF m.val.tag = "One" THEN Ok(Bin("Eq", ctxvalue, m.val.one))
  ELSE Ok(Bin("Eq", AnyIn(List(m.val.list)), ctxvalue))

\* the closure of the try_fold of compare; m is values.map(&converter)
CompareExpr(operator, ctxvalue, m) ==
  IF ~IsOk(m) THEN m
  ELSE IF m.val.tag = "One" THEN Ok(CompareOne(operator, ctxvalue, m.val.one))
  ELSE Ok(CompareMany(operator, ctxvalue, m.val.list))

\* the expression of one (attr, values) pair
ConditionExpr(operator, pair) ==
  IF operator.operator = "Bool"
  THEN BoolExpr(resolve(pair.attr), ValueMap(pair.values, "to_bool"))
  ELSE CompareExpr(operator, resolve(pair.attr),
                   ValueMap(pair.values, IF operator.operator \in NumericOperators
                                         THEN "to_int" ELSE "to_str"))

RECURSIVE ConditionFold(_, _)
ConditionFold(operator, condition) ==
  IF condition = <<>> THEN Ok(<<>>)
  ELSE TryPush(ConditionExpr(operator, Head(condition)),
               ConditionFold(operator, Tail(condition)))

\* a mutation: an operator without an arm gives no expression and no error
BuildConditionSkipsUnsupported(operator, condition) ==
  IF operator.operator = "Bool" \/ operator.operator \in CompareOperators
  THEN ConditionFold(operator, condition)
  ELSE Ok(<<>>)

build_condition(operator, condition) ==
  IF operator.operator = "Bool" \/ operator.operator \in CompareOperators
  THEN ConditionFold(operator, condition)
  ELSE Err("UnsupportedFunction")

(***************************************************************************)
(* The meaning of the emitted program: the values an expression rendered   *)
(* by Repr (expression.rs) takes in the Rego engine for a request `input`. *)
(* An expression denotes the sequence of the values it can take, one per   *)
(* binding of its [_] iterations; the empty sequence is `undefined`.       *)
(***************************************************************************)
VStr(s) == [t |-> "str", s |-> s]
VNum(n) == [t |-> "num", n |-> n]
VBool(b) == [t |-> "bool", b |-> b]
VArr(l) == [t |-> "arr", a |-> l]
VObj(f) == [t |-> "obj", o |-> f]

Env(input) == [input |-> input, item |-> <<>>, val |-> <<>>]

RECURSIVE Walk(_, _)
Walk(value, segs) ==
  IF segs = <<>> THEN <<value>>
  ELSE IF value.t = "obj" /\ Head(segs) \in DOMAIN value.o
  THEN Walk(value.o[Head(segs)], Tail(segs))
  ELSE <<>>

\* Repr for Var: the name is emitted as is, so it reads as `null`, a bound
\* variable, a quoted string literal or a path under input
EvalVar(name, env) ==
  IF name = NullName THEN <<[t |-> "null"]>>
  ELSE IF name = ItemName THEN env.item
  ELSE IF name = ValName THEN env.val
  ELSE IF Head(name) = "\"" THEN <<VStr(SubSeq(name, 2, Len(name) - 1))>>
  ELSE LET segs == Split(name, ".")
       IN IF Head(segs) = <<"i", "n", "p", "u", "t">> THEN Walk(env.input, Tail(segs))
          ELSE <<>>

\* glob.match(pattern, null, s): no delimiters, * matches any run, ? any one character
RECURSIVE GlobMatch(_, _)
GlobMatch(p, s) ==
  IF p = <<>> THEN s = <<>>
  ELSE IF Head(p) = "*"
  THEN \E i \in 0..Len(s) : GlobMatch(Tail(p), SubSeq(s, i + 1, Len(s)))
  ELSE IF s = <<>> THEN FALSE
  ELSE (Head(p) = "?" \/ Head(p) = Head(s)) /\ GlobMatch(Tail(p), Tail(s))

Lower(s) ==
  [i \in 1..Len(s) |-> CASE s[i] = "A" -> "a" [] s[i] = "B" -> "b" [] OTHER -> s[i]]

\* time.parse_rfc3339_ns on a timestamp written with its digits alone:
\* undefined for anything else
Rfc3339Ns(s) ==
  IF s # <<>> /\ \A i \in 1..Len(s) : s[i] \in Digits THEN <<VNum(DecimalValue(s, 0))>>
  ELSE <<>>

\* net.cidr_contains on addresses written as bit strings, a CIDR being the
\* address bits, "/" and the prefix length
CidrContains(cidr, ip) ==
  LET slash == Find(cidr, <<"/">>, 0)
      bits == IF slash < 0 THEN cidr ELSE Slice(cidr, 0, slash)
      n == IF slash < 0 THEN Len(cidr)
           ELSE DecimalValue(Slice(cidr, slash + 1, Len(cidr)), 0)
  IN Len(ip) >= n /\ Len(bits) >= n /\ SubSeq(bits, 1, n) = SubSeq(ip, 1, n)

RECURSIVE Flatten(_)
Flatten(ss) == IF ss = <<>> THEN <<>> ELSE Head(ss) \o Flatten(Tail(ss))

RECURSIVE Vals(_, _)

\* the elements of a list literal: undefined as soon as one element is
RECURSIVE ListVals(_, _)
ListVals(xs, env) ==
  IF xs = <<>> THEN <<<<>>>>
  ELSE LET h == Vals(Head(xs), env)
           t == ListVals(Tail(xs), env)
       IN IF h = <<>> \/ t = <<>> THEN <<>> ELSE <<<<h[1]>> \o t[1]>>

EvalCall(f, args) ==
  CASE f = "glob.match" ->
         IF args[1].t = "str" /\ args[3].t = "str"
         THEN <<VBool(GlobMatch(args[1].s, args[3].s))>> ELSE <<>>
    [] f = "lower" -> IF args[1].t = "str" THEN <<VStr(Lower(args[1].s))>> ELSE <<>>
    [] f = "net.cidr_contains" ->
         IF args[1].t = "str" /\ args[2].t = "str"
         THEN <<VBool(CidrContains(args[1].s, args[2].s))>> ELSE <<>>
    [] f = "time.parse_rfc3339_ns" ->
         IF args[1].t = "str" THEN Rfc3339Ns(args[1].s) ELSE <<>>
    [] f = "object.get" ->
         IF args[1].t = "obj" /\ args[2].t = "str"
         THEN IF args[2].s \in DOMAIN args[1].o THEN <<args[1].o[args[2].s]>>
              ELSE <<args[3]>>
         ELSE <<>>
    [] f = "to_array" -> IF args[1].t = "arr" THEN <<args[1]>> ELSE <<VArr(<<args[1]>>)>>

\* all the ways to pick one value per argument
RECURSIVE ArgChoices(_, _)
ArgChoices(xs, env) ==
  IF xs = <<>> THEN <<<<>>>>
  ELSE LET hs == Vals(Head(xs), env)
           ts == ArgChoices(Tail(xs), env)
       IN Flatten([i \in 1..Len(hs) |-> [j \in 1..Len(ts) |-> <<hs[i]>> \o ts[j]]])

Vals(e, env) ==
  CASE e.k = "Var" -> EvalVar(e.name, env)
    [] e.k = "Str" -> <<VStr(e.s)>>
    [] e.k = "Int" -> <<VNum(e.i)>>
    [] e.k = "Bool" -> <<VBool(e.b)>>
    [] e.k = "List" -> LET l == ListVals(e.xs, env) IN IF l = <<>> THEN <<>> ELSE <<VArr(l[1])>>
    [] e.k = "AnyIn" ->
         LET vs == Vals(e.x, env)
         IN Flatten([i \in 1..Len(vs) |-> IF vs[i].t = "arr" THEN vs[i].a ELSE <<>>])
    [] e.k = "Call" ->
         LET cs == ArgChoices(e.xs, env)
         IN Flatten([i \in 1..Len(cs) |-> EvalCall(e.name, cs[i])])

\* the comparison operators of Rego on two defined values
Rel(op, l, r) ==
  CASE op = "Eq" -> l = r
    [] op = "Ne" -> l # r
    [] op = "Lt" -> l.t = "num" /\ r.t = "num" /\ l.n < r.n
    [] op = "Lte" -> l.t = "num" /\ r.t = "num" /\ l.n <= r.n
    [] op = "Gt" -> l.t = "num" /\ r.t = "num" /\ l.n > r.n
    [] op = "Gte" -> l.t = "num" /\ r.t = "num" /\ l.n >= r.n

Bind(env, name, v) ==
  IF name = ItemName THEN [env EXCEPT !.item = <<v>>] ELSE [env EXCEPT !.val = <<v>>]

\* whether the expression, as one line of a rule body, succeeds
RECURSIVE Holds(_, _)
Holds(e, env) ==
  CASE e.k \in {"Eq", "Ne", "Lt", "Lte", "Gt", "Gte"} ->
         LET ls == Vals(e.l, env)
             rs == Vals(e.r, env)
         IN \E i \in 1..Len(ls) : \E j \in 1..Len(rs) : Rel(e.k, ls[i], rs[j])
    [] e.k = "Call" ->
         LET vs == Vals(e, env) IN \E i \in 1..Len(vs) : vs[i].t = "bool" /\ vs[i].b
    [] e.k = "Neg" -> ~Holds(e.x, env)
    [] e.k = "Every" ->
         LET ds == Vals(e.ys, env)
         IN /\ ds # <<>>
            /\ ds[1].t = "arr"
            /\ \A i \in 1..Len(ds[1].a) : Holds(e.z, Bind(env, e.v.name, ds[1].a[i]))

(***************************************************************************)
(* parser.rs: parse_iam_policy, Policy::serialize and the preamble BASE.   *)
(* A statement of the document is a record of the fields the aws_iam       *)
(* model gives: principal.form is "None", "One", "AnyOf", "Any",           *)
(* "NotPrincipal" or "NoAWS" (a principal map without the AWS entry);      *)
(* action and resource have neg (the Not* key) and form "One", "AnyOf" or  *)
(* "Any"; condition is a sequence of [operator, pairs].                    *)
(***************************************************************************)
ParsePrincipal(pr) ==
  CASE pr.form = "None" -> Ok(ScopeId(One(STAR)))
    [] pr.form = "AnyOf" -> Ok(ScopeId(Many(pr.v)))
    [] pr.form = "One" -> Ok(ScopeId(One(pr.v)))
    [] pr.form = "Any" -> Err("UnsupportedPrincipalType")
    [] pr.form = "NotPrincipal" -> Err("UnsupportedNegation")
    [] pr.form = "NoAWS" -> Err("panic")

ParseScope(sc) ==
  CASE sc.form = "AnyOf" -> Ok([neg |-> sc.neg, val |-> Many(sc.v)])
    [] sc.form = "One" -> Ok([neg |-> sc.neg, val |-> One(sc.v)])
    [] sc.form = "Any" -> Err("UnsupportedWildcard")

\* the body of the loop of parse_iam_policy for one statement
ParseStatement(st) ==
  LET principals == ParsePrincipal(st.principal)
      actions == ParseScope(st.action)
      resources == ParseScope(st.resource)
  IN IF ~IsOk(principals) THEN principals
     ELSE IF ~IsOk(actions) THEN actions
     ELSE IF ~IsOk(resources) THEN resources
     ELSE Generate([effect |-> st.effect, principals |-> principals.val,
                    actions |-> actions.val, resources |-> resources.val,
                    conditions |-> st.condition])

RECURSIVE ParseLoop(_)
ParseLoop(statements) ==
  IF statements = <<>> THEN Ok(<<>>)
  ELSE TryPush(ParseStatement(Head(statements)), ParseLoop(Tail(statements)))

\* statements.statement.all().unwrap_or_default(): the statements of an
\* array, and none when `all` gives None, which is when Statement is one object
StatementsAll(document) ==
  IF document.form = "All" THEN document.statement ELSE <<>>

\* a document is [form, statement]: form is "All" for an array of statements
\* and "One" for a single object, held in statement as a list of one
parse_iam_policy(document) == ParseLoop(StatementsAll(document))

\* Repr for Expr::Statement: the lines of the rule body, the scope
\* expressions and then the conditions re-derived by build_condition
RECURSIVE ConditionLines(_)
ConditionLines(conditions) ==
  IF conditions = <<>> THEN Ok(<<>>)
  ELSE TryConcat(build_condition(Head(conditions).operator, Head(conditions).pairs),
                 ConditionLines(Tail(conditions)))

RuleLines(rule) == TryConcat(Ok(rule.xs), ConditionLines(rule.ys))

\* the head of the rule: `permit` for Allow, `deny` for Deny
RuleHead(rule) == IF rule.m = "Allow" THEN "permit" ELSE "deny"

\* the preamble, line by line
BASE ==
  <<"package main", "default allow = false", "default deny = false",
    "default permit = false",
    "to_array(x) := x if { is_array(x) }", "to_array(x) := [x] if { not is_array(x) }",
    "arn_like(lhs, rhs) if {", "  count(indexof_n(lhs, \":\")) == 5",
    "  count(indexof_n(rhs, \":\")) == 5", "  glob.match(lhs, [\":\"], rhs)", "}",
    "allow if {", "  permit", "  not deny", "}">>

\* Repr for Expr::Statement: the block of a rule is its head, the expressions
\* of its lines and the closing brace; an error of build_condition ends it
StatementRepr(rule) == TryConcat(TryPush(Ok(RuleHead(rule)), RuleLines(rule)), Ok(<<"}">>))

RECURSIVE SerializeLoop(_)
SerializeLoop(rules) ==
  IF rules = <<>> THEN Ok(<<>>)
  ELSE TryPush(StatementRepr(Head(rules)), SerializeLoop(Tail(rules)))

\* Policy::serialize: BASE, then the block of each statement
serialize(rules) == TryPush(Ok(BASE), SerializeLoop(rules))

\* a mutation: the lines of a rule body are alternatives
RuleFiresAnyLine(rule, input) ==
  LET lines == RuleLines(rule).val
  IN \E i \in 1..Len(lines) : Holds(lines[i], Env(input))

\* all conjuncts in a rule body are implicit AND
AllHold(lines, env) == \A i \in 1..Len(lines) : Holds(lines[i], env)

\* a rule with several lines succeeds when every line does
RuleFires(rule, input) == AllHold(RuleLines(rule).val, Env(input))

\* a mutation: only the first rule of the program is looked at
HeadTrueOfFirstRule(head, rules, input) ==
  rules # <<>> /\ RuleHead(rules[1]) = head /\ RuleFires(rules[1], input)

\* `default permit = false`, `default deny = false` and the rules of that head
HeadTrue(head, rules, input) ==
  \E i \in 1..Len(rules) : RuleHead(rules[i]) = head /\ RuleFires(rules[i], input)

\* a mutation of BASE: allow if { permit }
AllowIgnoringDeny(rules, input) == HeadTrue("permit", rules, input)

\* `default allow = false` and `allow if { permit; not deny }`
Allow(rules, input) == HeadTrue("permit", rules, input) /\ ~HeadTrue("deny", rules, input)

(***************************************************************************)
(* Request inputs.  A request is an object with principal, action and      *)
(* resource and, under the namespace q, the context attribute k, which is  *)
(* absent (<<>>) or has one value (<<v>>).  The unqualified attribute k    *)
(* sits at the top level.                                                  *)
(***************************************************************************)
QName == <<"q">>
KName == <<"k">>
AttrQK == [qualifier |-> <<QName>>, value |-> KName]
AttrK == [qualifier |-> <<>>, value |-> KName]

AttrObj(ctx) == IF ctx = <<>> THEN <<>> ELSE (KName :> ctx[1])

Input(principal, action, resource, ctx) ==
  VObj((ScopeKey("Principal") :> VStr(principal)) @@
       (ScopeKey("Action") :> VStr(action)) @@
       (ScopeKey("Resource") :> VStr(resource)) @@
       (QName :> VObj(AttrObj(ctx))) @@
       AttrObj(ctx))

StrA == <<"a">>
StrB == <<"b">>

(***************************************************************************)
(* Spec: the life of a Regoer (lib.rs): add_policy, compile, evaluate.     *)
(***************************************************************************)
NoPrincipal == [form |-> "None", v |-> <<>>]
ScopeDoc(neg, s) == [neg |-> neg, form |-> "One", v |-> s]
OperatorOf(quantifier, name) == [quantifier |-> quantifier, operator |-> name]
SString(s) == [t |-> "String", s |-> s]
SInteger(i) == [t |-> "Integer", i |-> i]
SBool(b) == [t |-> "Bool", b |-> b]

\* a statement of the document as the aws_iam model gives it
DocStatement(effect, principal, action, resource, condition) ==
  [effect |-> effect, principal |-> principal, action |-> action,
   resource |-> resource, condition |-> condition]

\* the Condition block with one operator and one value for the attribute q:k
DocCondition(name, value) ==
  <<[operator |-> OperatorOf("None", name),
     pairs |-> <<[attr |-> AttrQK, values |-> One(value)]>>]>>

\* statements with Action "*", "a" or NotAction "a", with and without a
\* condition; a statement with every scope constrained; statements that do not
\* translate: the action Any, an ill-typed value, an operator without an arm,
\* and the principals that are not lists or strings under AWS
DocStatements ==
  {DocStatement(e, NoPrincipal, a, ScopeDoc(FALSE, STAR), c) :
     e \in {"Allow", "Deny"},
     a \in {ScopeDoc(FALSE, STAR), ScopeDoc(FALSE, StrA), ScopeDoc(TRUE, StrA)},
     c \in {<<>>, DocCondition("StringEquals", SString(StrA))}}
  \cup {DocStatement("Allow", NoPrincipal, [neg |-> FALSE, form |-> "Any", v |-> <<>>],
                     ScopeDoc(FALSE, STAR), <<>>),
        DocStatement("Allow", [form |-> "One", v |-> StrA], ScopeDoc(FALSE, StrA),
                     ScopeDoc(FALSE, StrA),
                     DocCondition("StringEquals", SString(StrA))
                       \o DocCondition("StringLike", SString(<<"a", "*">>))),
        DocStatement("Allow", NoPrincipal, ScopeDoc(FALSE, StrA), ScopeDoc(FALSE, STAR),
                     DocCondition("StringEquals", SInteger(1))),
        DocStatement("Allow", NoPrincipal, ScopeDoc(FALSE, StrA), ScopeDoc(FALSE, STAR),
                     DocCondition("ArnLike", SString(StrA)))}
  \cup {DocStatement("Allow", [form |-> f, v |-> <<>>], ScopeDoc(FALSE, StrA),
                     ScopeDoc(FALSE, STAR), <<>>) : f \in {"Any", "NoAWS", "NotPrincipal"}}

InputOf(req) == Input(StrA, req.action, StrA, req.ctx)

MainIdle ==
  /\ doc = <<>> /\ policy = <<>> /\ program = <<>> /\ decision = FALSE
  /\ request = [action |-> StrA, ctx |-> <<>>]

\* Regoer::add_policy on a document whose Statement is an array:
\* parse_iam_policy, and the policy is kept when it succeeds
AddPolicy ==
  /\ pc = "start"
  /\ \E d \in SeqsUpTo(DocStatements, MaxStatements) :
       LET r == parse_iam_policy([form |-> "All", statement |-> d])
       IN /\ doc' = d
          /\ policy' = IF IsOk(r) THEN r.val ELSE <<>>
          /\ pc' = IF IsOk(r) THEN "added" ELSE r.err
  /\ UNCHANGED <<program, request, decision, scopeVars, condVars, strVars, builderVars, scanVars>>

\* Regoer::compile: Policy::serialize of the policy, given to the engine
Compile ==
  /\ pc = "added"
  /\ pc' = IF IsOk(serialize(policy)) THEN "compiled" ELSE "compile_failed"
  /\ program' = serialize(policy).val
  /\ UNCHANGED <<doc, policy, request, decision, scopeVars, condVars, strVars, builderVars, scanVars>>

\* Evaluator::evaluate
Evaluate ==
  /\ pc \in {"compiled", "evaluated"}
  /\ \E a \in {StrA, StrB}, c \in {<<>>, <<VStr(StrA)>>, <<VStr(StrB)>>} :
       /\ request' = [action |-> a, ctx |-> c]
       /\ decision' = Allow(policy, InputOf([action |-> a, ctx |-> c]))
  /\ pc' = "evaluated"
  /\ UNCHANGED <<doc, policy, program, scopeVars, condVars, strVars, builderVars, scanVars>>

(***************************************************************************)
(* SpecScope: Statement::generate on a statement that constrains one of    *)
(* principal, action, resource, and the rule it gives against a request.   *)
(***************************************************************************)
ScopeStrs == {STAR, StrA, <<"a", "*">>, StrB}

ScopeStatement(kind, scope) ==
  [effect |-> "Allow",
   principals |-> IF kind = "Principal" THEN scope ELSE ScopeId(One(STAR)),
   actions |-> IF kind = "Action" THEN scope ELSE ScopeId(One(STAR)),
   resources |-> IF kind = "Resource" THEN scope ELSE ScopeId(One(STAR)),
   conditions |-> <<>>]

ScopeInput(kind, x) ==
  Input(IF kind = "Principal" THEN x ELSE StrA,
        IF kind = "Action" THEN x ELSE StrA,
        IF kind = "Resource" THEN x ELSE StrA, <<>>)

ScopeIdle ==
  /\ scopeIn = [kind |-> "Action", scope |-> ScopeId(One(STAR))]
  /\ scopeOut = Ok(StatementE("Allow", <<>>, <<>>))
  /\ scopeReq = StrA /\ scopeRes = FALSE

ScopeGenerate ==
  /\ pc = "scope"
  /\ \E kind \in {"Principal", "Action", "Resource"}, neg \in BOOLEAN,
        v \in {One(x) : x \in ScopeStrs} \cup {Many(l) : l \in SeqsUpTo(ScopeStrs, MaxList)} :
       /\ kind = "Principal" => ~neg
       /\ scopeIn' = [kind |-> kind, scope |-> [neg |-> neg, val |-> v]]
       /\ scopeOut' = Generate(ScopeStatement(kind, [neg |-> neg, val |-> v]))
  /\ pc' = "generated"
  /\ UNCHANGED <<scopeReq, scopeRes, mainVars, condVars, strVars, builderVars, scanVars>>

ScopeEvaluate ==
  /\ pc \in {"generated", "scope_evaluated"}
  /\ IsOk(scopeOut)
  /\ \E x \in {StrA, <<"a", "b">>, StrB} :
       /\ scopeReq' = x
       /\ scopeRes' = RuleFires(scopeOut.val, ScopeInput(scopeIn.kind, x))
  /\ pc' = "scope_evaluated"
  /\ UNCHANGED <<scopeIn, scopeOut, mainVars, condVars, strVars, builderVars, scanVars>>

(***************************************************************************)
(* SpecCond: build_condition on one (operator, attribute, values) triple,  *)
(* and the expression it gives against the context of a request.           *)
(***************************************************************************)
\* the operators of build_condition, and two it has no arm for
CondOperators == CompareOperators \cup {"Bool", "ArnLike", "Null"}

\* the values a policy can hold under an operator: two that the operator's
\* conversion takes, and then values it does not take (for a number: a
\* word, a boolean and i64::MAX + 1, next to the signed -1 that it takes)
PolicyUniverse(op) ==
  IF op \in StringOperators THEN {SString(StrA), SString(<<"B", "*">>), SInteger(1)}
  ELSE IF op \in NumericOperators
  THEN {SInteger(1), SString(<<"2">>), SString(<<"-", "1">>), SString(<<"a">>), SBool(TRUE),
        SString(<<"9", "2", "2", "3", "3", "7", "2", "0", "3", "6", "8", "5", "4", "7", "7",
                  "5", "8", "0", "8">>)}
  ELSE IF op \in DateOperators THEN {SString(<<"1">>), SString(<<"2">>), SBool(TRUE)}
  ELSE IF op \in IpOperators
  THEN {SString(<<"1", "0", "/", "1">>), SString(<<"0", "1", "/", "2">>), SInteger(1)}
  ELSE {SBool(TRUE), SString(<<"f", "a", "l", "s", "e">>), SString(<<"T", "r", "u", "e">>),
        SInteger(1)}

ContextUniverse(op) ==
  IF op \in StringOperators THEN {VStr(StrA), VStr(<<"B", "a">>), VStr(<<"b", "*">>)}
  ELSE IF op \in NumericOperators THEN {VNum(1), VNum(2), VNum(3)}
  ELSE IF op \in DateOperators THEN {VStr(<<"1">>), VStr(<<"2">>), VStr(<<"3">>)}
  ELSE IF op \in IpOperators
  THEN {VStr(<<"1", "0">>), VStr(<<"1", "1">>), VStr(<<"0", "1">>)}
  ELSE {VBool(TRUE), VBool(FALSE)}

CondIdle ==
  /\ condIn = [operator |-> OperatorOf("None", "Bool"),
               pair |-> [attr |-> AttrQK, values |-> One(SBool(TRUE))]]
  /\ condOut = Ok(<<>>)
  /\ condCtx = <<>> /\ condRes = FALSE

CondBuild ==
  /\ pc = "cond"
  /\ \E op \in CondOperators, q \in {"None", "ForAnyValue", "ForAllValues"}, attr \in {AttrQK, AttrK} :
       \E values \in {One(x) : x \in PolicyUniverse(op)}
                      \cup {Many(l) : l \in SeqsUpTo(PolicyUniverse(op), MaxList)} :
         LET pair == [attr |-> attr, values |-> values]
         IN /\ condIn' = [operator |-> OperatorOf(q, op), pair |-> pair]
            /\ condOut' = build_condition(OperatorOf(q, op), <<pair>>)
  /\ pc' = "built"
  /\ UNCHANGED <<condCtx, condRes, mainVars, scopeVars, strVars, builderVars, scanVars>>

CondHolds(exprs, ctx) ==
  \A i \in 1..Len(exprs) : Holds(exprs[i], Env(Input(StrA, StrA, StrA, ctx)))

CondEvaluate ==
  /\ pc = "built"
  /\ IsOk(condOut)
  /\ \E ctx \in {<<>>} \cup {<<x>> : x \in ContextUniverse(condIn.operator.operator)}
                \cup {<<VArr(l)>> : l \in SeqsUpTo(ContextUniverse(condIn.operator.operator),
                                                   MaxCtx)} :
       /\ condCtx' = ctx
       /\ condRes' = CondHolds(condOut.val, ctx)
  /\ pc' = "cond_evaluated"
  /\ UNCHANGED <<condIn, condOut, mainVars, scopeVars, strVars, builderVars, scanVars>>

(***************************************************************************)
(* SpecStr: substitute_variables on a template made of fragments (literal  *)
(* characters, escapes, variables, and interpolations that are malformed   *)
(* or carry a default), and resolve on a condition attribute.              *)
(***************************************************************************)
Fragment(kind, s, x) == [kind |-> kind, s |-> s, x |-> x]
Interpolation(body) == DOLLAR_BRACE \o body \o <<"}">>

\* literal characters; the escapes ${*}, ${ ? } and ${$}; the variables ${a},
\* ${q:k} and ${q:a/b}; and ${a/b/c}, ${${a}}, ${a, 'b'}, ${a, '${b'} and an
\* unclosed ${.  x is the character a literal or an escape stands for, and
\* the path of a variable.
Fragments ==
  {Fragment("lit", <<c>>, <<c>>) : c \in {"a", "%", "s"}}
  \cup {Fragment("esc", Interpolation(<<"*">>), <<"*">>),
        Fragment("esc", Interpolation(<<" ", "?", " ">>), <<"?">>),
        Fragment("esc", Interpolation(<<"$">>), <<"$">>),
        Fragment("var", Interpolation(<<"a">>), INPUT_PREFIX \o <<"a">>),
        Fragment("var", Interpolation(<<"q", ":", "k">>), INPUT_PREFIX \o <<"q", ".", "k">>),
        Fragment("var", Interpolation(<<"q", ":", "a", "/", "b">>),
                 INPUT_PREFIX \o <<"q", ".", "a", ".", "b">>),
        Fragment("slashes", Interpolation(<<"a", "/", "b", "/", "c">>), <<>>),
        Fragment("nested", Interpolation(Interpolation(<<"a">>)), <<>>),
        Fragment("default", Interpolation(<<"a", ",", " ", "'", "b", "'">>), <<>>),
        Fragment("nested", Interpolation(<<"a", ",", " ", "'", "$", "{", "b", "'">>), <<>>),
        Fragment("open", DOLLAR_BRACE, <<>>)}

\* the template string: the texts of the fragments, concatenated
RECURSIVE TemplateOf(_)
TemplateOf(parts) ==
  IF parts = <<>> THEN <<>> ELSE Head(parts).s \o TemplateOf(Tail(parts))

\* q:k, k, q:a/b, q:a/b/c and a/b/c
Attributes ==
  {AttrQK, AttrK,
   [qualifier |-> <<QName>>, value |-> <<"a", "/", "b">>],
   [qualifier |-> <<QName>>, value |-> <<"a", "/", "b", "/", "c">>],
   [qualifier |-> <<>>, value |-> <<"a", "/", "b", "/", "c">>]}

StrIdle ==
  /\ strIn = <<>> /\ strOut = Ok(Plain(<<>>))
  /\ attrIn = AttrQK /\ attrOut = Ok(Var(<<>>))

Substitute ==
  /\ pc = "str"
  /\ strOut' = substitute_variables(TemplateOf(strIn))
  /\ pc' = "substituted"
  /\ UNCHANGED <<strIn, attrIn, attrOut, mainVars, scopeVars, condVars, builderVars, scanVars>>

Resolve ==
  /\ pc = "attr"
  /\ attrOut' = Ok(resolve(attrIn))
  /\ pc' = "resolved"
  /\ UNCHANGED <<strIn, strOut, attrIn, mainVars, scopeVars, condVars, builderVars, scanVars>>

(***************************************************************************)
(* SpecBuilder: a Regoer over several calls (lib.rs): add_policy and       *)
(* add_data in any order, then compile and evaluate.  The engine is        *)
(* outside the program: each of its calls succeeds or fails as the engine  *)
(* decides, which the actions draw as e.                                   *)
(***************************************************************************)
\* documents: Allow a; Deny a; the single object Allow b; a condition
\* with an ill-typed value; the action Any
BuilderDocs ==
  {[form |-> "All", statement |->
      <<DocStatement(e, NoPrincipal, ScopeDoc(FALSE, StrA), ScopeDoc(FALSE, STAR), <<>>)>>] :
     e \in {"Allow", "Deny"}}
  \cup {[form |-> "One", statement |->
           <<DocStatement("Allow", NoPrincipal, ScopeDoc(FALSE, StrB),
                          ScopeDoc(FALSE, STAR), <<>>)>>],
        [form |-> "All", statement |->
           <<DocStatement("Allow", NoPrincipal, ScopeDoc(FALSE, StrA), ScopeDoc(FALSE, STAR),
                          DocCondition("StringEquals", SInteger(1)))>>],
        [form |-> "All", statement |->
           <<DocStatement("Allow", NoPrincipal, [neg |-> FALSE, form |-> "Any", v |-> <<>>],
                          ScopeDoc(FALSE, STAR), <<>>)>>]}

\* Regoer::default
BuilderIdle ==
  policies = <<>> /\ calls = <<>> /\ outcome = "none" /\ evaluator = <<>>

\* an add_policy that pushes what it has whether the parse succeeded or not
BuilderAddPolicyPushesAlways ==
  /\ pc = "builder" /\ Len(calls) < MaxCalls
  /\ \E d \in BuilderDocs :
       /\ policies' = Append(policies, parse_iam_policy(d).val)
       /\ outcome' = IF IsOk(parse_iam_policy(d)) THEN "ok" ELSE parse_iam_policy(d).err
       /\ calls' = Append(calls, [kind |-> "policy", doc |-> d,
                                  ok |-> IsOk(parse_iam_policy(d))])
  /\ UNCHANGED <<pc, evaluator, mainVars, scopeVars, condVars, strVars, scanVars>>

\* Regoer::add_policy: the policy is pushed when parse_iam_policy succeeds;
\* calls keeps the history of the calls for the properties to speak of
BuilderAddPolicy ==
  /\ pc = "builder" /\ Len(calls) < MaxCalls
  /\ \E d \in BuilderDocs :
       /\ policies' = IF IsOk(parse_iam_policy(d))
                      THEN Append(policies, parse_iam_policy(d).val) ELSE policies
       /\ outcome' = IF IsOk(parse_iam_policy(d)) THEN "ok" ELSE parse_iam_policy(d).err
       /\ calls' = Append(calls, [kind |-> "policy", doc |-> d,
                                  ok |-> IsOk(parse_iam_policy(d))])
  /\ UNCHANGED <<pc, evaluator, mainVars, scopeVars, condVars, strVars, scanVars>>

\* Regoer::add_data: the engine takes the data or refuses it
BuilderAddData ==
  /\ pc = "builder" /\ Len(calls) < MaxCalls
  /\ \E e \in {"ok", "refuses"} :
       /\ outcome' = IF e = "ok" THEN "ok" ELSE "GenericError"
       /\ calls' = Append(calls, [kind |-> "data", ok |-> e = "ok",
                                  doc |-> [form |-> "All", statement |-> <<>>]])
  /\ UNCHANGED <<pc, policies, evaluator, mainVars, scopeVars, condVars, strVars, scanVars>>

\* policy.serialize()? for each policy in turn
RECURSIVE SerializeAll(_)
SerializeAll(ps) ==
  IF ps = <<>> THEN Ok(<<>>) ELSE TryPush(serialize(Head(ps)), SerializeAll(Tail(ps)))

\* the result of Regoer::compile when the engine does e: "ok", "rejects"
\* (Engine::add_policy fails on the first program) or "no_entrypoint"
\* (compile_with_entrypoint fails, and its result is unwrapped)
CompileOutcome(ps, e) ==
  IF ps # <<>> /\ ~IsOk(serialize(ps[1])) THEN serialize(ps[1]).err
  ELSE IF ps # <<>> /\ e = "rejects" THEN "GenericError"
  ELSE IF ~IsOk(SerializeAll(ps)) THEN SerializeAll(ps).err
  ELSE IF e = "no_entrypoint" THEN "panic"
  ELSE "ok"

\* Regoer::compile consumes the builder
BuilderCompile ==
  /\ pc = "builder"
  /\ \E e \in {"ok", "rejects", "no_entrypoint"} :
       /\ outcome' = CompileOutcome(policies, e)
       /\ pc' = IF CompileOutcome(policies, e) = "ok" THEN "compiled" ELSE "consumed"
       /\ evaluator' = IF CompileOutcome(policies, e) = "ok" THEN policies ELSE <<>>
  /\ UNCHANGED <<policies, calls, mainVars, scopeVars, condVars, strVars, scanVars>>

\* Evaluator::evaluate: the rules of all the programs given to the engine
\* belong to the package main
BuilderEvaluate ==
  /\ pc \in {"compiled", "evaluated"}
  /\ \E a \in {StrA, StrB}, e \in {"ok", "fails", "not_bool"} :
       /\ request' = [action |-> a, ctx |-> <<>>]
       /\ outcome' = IF e = "ok" THEN "ok" ELSE "GenericError"
       /\ decision' = IF e = "ok"
                      THEN Allow(Flatten(evaluator), InputOf([action |-> a, ctx |-> <<>>]))
                      ELSE decision
  /\ pc' = "evaluated"
  /\ UNCHANGED <<doc, policy, program, policies, calls, evaluator,
                 scopeVars, condVars, strVars, scanVars>>

(***************************************************************************)
(* SpecScan: the while loop of substitute_variables (interpolation.rs      *)
(* 26-90), one iteration at a time.  scanResult, collected, scanLastEnd     *)
(* and scanPos are the locals result, vars, last_end and pos of the        *)
(* function; the template is the text of strIn and the value returned is   *)
(* strOut.                                                                 *)
(***************************************************************************)
ScanIdle == scanResult = <<>> /\ collected = <<>> /\ scanLastEnd = 0 /\ scanPos = 0

\* the function returns out
ScanReturn(st, out) == [st EXCEPT !.pc = "scanned", !.out = out]

\* the text and the variable that the expression between the braces gives:
\* an escape's character, or %s and the variable; or the error of the expression
ScanSegment(var_expr) == SubstituteExpr(<<>>, <<>>, <<>>, 0, var_expr)

\* the templates the function is called on
ScanTemplates == SeqsUpTo(Fragments, MaxParts)

\* the call of the function on a template: a template without "${" is
\* returned as it is, and the loop starts with empty locals otherwise
ScanEnter ==
  /\ pc = "scan"
  /\ strIn' \in ScanTemplates
  /\ pc' = IF Find(TemplateOf(strIn'), DOLLAR_BRACE, 0) < 0 THEN "scanned" ELSE "loop"
  /\ strOut' = IF Find(TemplateOf(strIn'), DOLLAR_BRACE, 0) < 0
               THEN Ok(Plain(TemplateOf(strIn'))) ELSE strOut
  /\ UNCHANGED <<attrIn, attrOut, scanVars, mainVars, scopeVars, condVars, builderVars>>

\* an iteration that moves on as if the segment ended where it starts
ScanClosedStaysAtStart(template, st, start, end, segment) ==
  IF ~IsOk(segment) THEN ScanReturn(st, segment)
  ELSE [st EXCEPT !.result = @ \o Slice(template, st.last_end, start) \o segment.val.s,
                  !.collected = @ \o (IF segment.val.k = "Tmpl" THEN segment.val.xs ELSE <<>>),
                  !.last_end = start, !.pos = start]

\* the iteration on the segment from start ("${") to end ("}"): the error of
\* its expression is returned, or its text and variable are pushed and the
\* scan moves past the closing brace
ScanClosed(template, st, start, end, segment) ==
  IF ~IsOk(segment) THEN ScanReturn(st, segment)
  ELSE [st EXCEPT !.result = @ \o Slice(template, st.last_end, start) \o segment.val.s,
                  !.collected = @ \o (IF segment.val.k = "Tmpl" THEN segment.val.xs ELSE <<>>),
                  !.last_end = end + 1, !.pos = end + 1]

\* the iteration with the next "${" at start (-1 for None): without it, or
\* without a closing brace after it, the rest is copied and the loop is left
ScanAt(template, st, start) ==
  IF start < 0 \/ Find(template, <<"}">>, start + 2) < 0
  THEN [st EXCEPT !.result = @ \o Slice(template, st.last_end, Len(template)),
                  !.pc = "scanned",
                  !.out = StrOf(st.result \o Slice(template, st.last_end, Len(template)),
                                st.collected)]
  ELSE ScanClosed(template, st, start, Find(template, <<"}">>, start + 2),
                  ScanSegment(Slice(template, start + 2, Find(template, <<"}">>, start + 2))))

\* the test of the while loop and one run of its body; st holds the locals
\* of the function, the place of control and the value returned
ScanBody(template, st) ==
  IF ~(st.pos < Len(template)) THEN ScanReturn(st, StrOf(st.result, st.collected))
  ELSE ScanAt(template, st, Find(template, DOLLAR_BRACE, st.pos))

\* one iteration of the loop
ScanIterate ==
  /\ pc = "loop"
  /\ \E next \in {ScanBody(TemplateOf(strIn),
                            [result |-> scanResult, collected |-> collected,
                             last_end |-> scanLastEnd, pos |-> scanPos,
                             pc |-> pc, out |-> strOut])} :
       /\ scanResult' = next.result /\ collected' = next.collected
       /\ scanLastEnd' = next.last_end /\ scanPos' = next.pos
       /\ pc' = next.pc /\ strOut' = next.out
  /\ UNCHANGED <<strIn, attrIn, attrOut, mainVars, scopeVars, condVars, builderVars>>

(***************************************************************************)
(* The specifications.                                                     *)
(***************************************************************************)
Init == BuilderIdle /\ ScanIdle /\ pc = "start" /\ MainIdle /\ ScopeIdle /\ CondIdle /\ StrIdle
Next == AddPolicy \/ Compile \/ Evaluate
Spec == Init /\ [][Next]_vars

InitScope == BuilderIdle /\ ScanIdle /\ pc = "scope" /\ MainIdle /\ ScopeIdle /\ CondIdle /\ StrIdle
NextScope == ScopeGenerate \/ ScopeEvaluate
SpecScope == InitScope /\ [][NextScope]_vars

InitCond == BuilderIdle /\ ScanIdle /\ pc = "cond" /\ MainIdle /\ ScopeIdle /\ CondIdle /\ StrIdle
NextCond == CondBuild \/ CondEvaluate
SpecCond == InitCond /\ [][NextCond]_vars

\* a template for substitute_variables, or an attribute for resolve
InitStr ==
  /\ MainIdle /\ ScopeIdle /\ CondIdle /\ BuilderIdle /\ ScanIdle
  /\ strOut = Ok(Plain(<<>>)) /\ attrOut = Ok(Var(<<>>))
  /\ \/ pc = "str" /\ strIn \in SeqsUpTo(Fragments, MaxParts) /\ attrIn = AttrQK
     \/ pc = "attr" /\ strIn = <<>> /\ attrIn \in Attributes
NextStr == Substitute \/ Resolve
SpecStr == InitStr /\ [][NextStr]_vars

InitBuilder ==
  /\ pc = "builder" /\ MainIdle /\ ScopeIdle /\ CondIdle /\ StrIdle /\ BuilderIdle /\ ScanIdle
NextBuilder == BuilderAddPolicy \/ BuilderAddData \/ BuilderCompile \/ BuilderEvaluate
SpecBuilder == InitBuilder /\ [][NextBuilder]_vars

InitScan ==
  /\ pc = "scan" /\ MainIdle /\ ScopeIdle /\ CondIdle /\ StrIdle /\ BuilderIdle /\ ScanIdle
NextScan == ScanEnter \/ ScanIterate
SpecScan == InitScan /\ [][NextScan]_vars

\* the function runs without waiting for anything: a step that can be taken
\* is taken.  This is weak fairness of both actions; for ScanIterate it is
\* written out, ENABLED <<ScanIterate>>_vars being pc = "loop" (the body of
\* the loop is total and each run of it changes pc or scanPos).
SpecScanFair ==
  /\ SpecScan
  /\ WF_vars(ScanEnter)
  /\ []<>(pc # "loop") \/ []<><<ScanIterate>>_vars

(***************************************************************************)
(* Properties of the decision (Spec).                                      *)
(***************************************************************************)
\* every conjunct of the rule translated from a statement holds for the input:
\* its scope expressions and the expressions of its conditions
ConjunctsHold(rule, input) ==
  /\ \A i \in 1..Len(rule.xs) : Holds(rule.xs[i], Env(input))
  /\ \A c \in 1..Len(rule.ys) :
       LET es == build_condition(rule.ys[c].operator, rule.ys[c].pairs).val
       IN \A i \in 1..Len(es) : Holds(es[i], Env(input))

StatementFires(i) == ConjunctsHold(policy[i], InputOf(request))
SomeFires(effect) == \E i \in 1..Len(doc) : doc[i].effect = effect /\ StatementFires(i)

\* C1: when the rule of at least one Deny statement fires for the request,
\* evaluate returns false, whatever Allow statements fire too.
C1_DenyOverrides == (pc = "evaluated" /\ SomeFires("Deny")) => decision = FALSE

C1_Witness == pc = "evaluated" /\ SomeFires("Deny") /\ SomeFires("Allow") /\ ~decision

\* C2: the decision is true exactly when some Allow statement has all its
\* conjuncts hold and no Deny statement has; a policy without a matching
\* Allow statement, the empty policy included, gives false.
C2_Decision ==
  pc = "evaluated" => (decision <=> (SomeFires("Allow") /\ ~SomeFires("Deny")))

C2_Witness ==
  /\ pc = "evaluated" /\ decision /\ Len(doc) = 2
  /\ doc[1].effect = "Allow" /\ doc[2].effect = "Allow"
  /\ ~StatementFires(1) /\ StatementFires(2)
  /\ doc[2].condition # <<>> /\ doc[2].action.v # STAR

(***************************************************************************)
(* Properties of the scope translation (SpecScope).                        *)
(***************************************************************************)
ScopeDone == pc \in {"generated", "scope_evaluated"}
ScopeValue == scopeIn.scope.val

\* the scope is the literal "*" or a list whose every element is "*"
IsWildcardScope(v) ==
  IF v.tag = "One" THEN v.one = STAR ELSE \A i \in 1..Len(v.list) : v.list[i] = STAR

\* C3: a scope that is "*" or a list of "*" only puts no conjunct in the rule
\* body (the two other scopes of the statement being "*" too, the body is
\* empty), and the rule of an all-wildcard statement without Condition fires
\* for every request.
C3_WildcardOmission ==
  (ScopeDone /\ IsWildcardScope(ScopeValue)) =>
    /\ IsOk(scopeOut)
    /\ scopeOut.val.xs = <<>>
    /\ pc = "scope_evaluated" => scopeRes = TRUE

C3_Witness ==
  /\ pc = "scope_evaluated" /\ scopeIn.kind = "Resource"
  /\ ScopeValue = Many(<<STAR, STAR>>) /\ ~scopeIn.scope.neg
  /\ scopeReq = StrB /\ scopeRes

\* the rule generated for the same scope value with the other sign
FlippedFires ==
  RuleFires(Generate(ScopeStatement(scopeIn.kind,
                                    [neg |-> ~scopeIn.scope.neg, val |-> ScopeValue])).val,
            ScopeInput(scopeIn.kind, scopeReq))

\* C4: for every scope value, wildcards included, and every request, the rule
\* generated with NotAction V (NotResource V) accepts the request exactly when
\* the rule generated with Action V (Resource V) does not.
C4_NotIsComplement ==
  (pc = "scope_evaluated" /\ scopeIn.kind \in {"Action", "Resource"}) =>
    scopeRes # FlippedFires

\* what holds of the code: the complement, for the scopes that are not wildcards
C4_NotIsComplementUnlessWildcard ==
  (pc = "scope_evaluated" /\ scopeIn.kind \in {"Action", "Resource"}
     /\ ~IsWildcardScope(ScopeValue)) =>
    scopeRes # FlippedFires

\* C5: for a positive scope given as a list that is not all "*", the conjunct
\* holds exactly when the request attribute matches one element: by equality
\* when no element contains '*', by glob.match on every element otherwise.
C5_ListScope ==
  (pc = "scope_evaluated" /\ ~scopeIn.scope.neg /\ ScopeValue.tag = "Many"
     /\ ~IsWildcardScope(ScopeValue)) =>
    LET list == ScopeValue.list
        globbing == \E j \in 1..Len(list) : Contains(list[j], "*")
    IN /\ Len(scopeOut.val.xs) = 1
       /\ scopeRes <=>
            \E i \in 1..Len(list) :
              IF globbing THEN GlobMatch(list[i], scopeReq) ELSE list[i] = scopeReq

C5_Witness ==
  /\ pc = "scope_evaluated" /\ ~scopeIn.scope.neg
  /\ ScopeValue = Many(<<StrB, <<"a", "*">>>>)
  /\ scopeReq = <<"a", "b">> /\ scopeRes

(***************************************************************************)
(* Properties of the condition translation (SpecCond).                     *)
(***************************************************************************)
CondOp == condIn.operator.operator
CondQuantifier == condIn.operator.quantifier
CondDone == pc \in {"built", "cond_evaluated"}

\* the values of the context attribute: none when absent, the value itself
\* when it is a scalar, the elements when it is an array
CtxList(ctx) ==
  IF ctx = <<>> THEN <<>> ELSE IF ctx[1].t = "arr" THEN ctx[1].a ELSE <<ctx[1]>>

\* the policy values as written in the document
PolList(values) == IF values.tag = "One" THEN <<values.one>> ELSE values.list

\* the value v is of the type the operator's conversion takes
TakenBy(op, v) ==
  IF op = "Bool"
  THEN v.t = "Bool" \/ (v.t = "String" /\ v.s \in {<<"t", "r", "u", "e">>, <<"f", "a", "l", "s", "e">>})
  ELSE IF op \in NumericOperators
  THEN v.t = "Integer" \/ (v.t = "String" /\ v.s \in {<<"2">>, <<"-", "1">>})
  ELSE v.t = "String"

\* every policy value of the condition is of the operator's type
WellTyped ==
  \A j \in 1..Len(PolList(condIn.pair.values)) :
    TakenBy(CondOp, PolList(condIn.pair.values)[j])

\* the timestamp or number a well-formed policy or context value stands for
NumberOf(x) ==
  IF x.t \in {"Integer"} THEN x.i
  ELSE IF x.t = "num" THEN x.n
  ELSE ParseInt(x.s).val

BoolOf(x) ==
  IF x.t \in {"Bool", "bool"} THEN x.b ELSE x.s = <<"t", "r", "u", "e">>

\* the base relation of the operator between a policy value and a context
\* value; a negated operator has the base relation of its positive form
Matches(op, p, c) ==
  CASE op \in {"StringEquals", "StringNotEquals"} -> p.s = c.s
    [] op \in {"StringEqualsIgnoreCase", "StringNotEqualsIgnoreCase"} -> Lower(p.s) = Lower(c.s)
    [] op \in {"StringLike", "StringNotLike"} -> GlobMatch(p.s, c.s)
    [] op \in {"NumericEquals", "NumericNotEquals", "DateEquals", "DateNotEquals"} ->
         NumberOf(c) = NumberOf(p)
    [] op \in {"NumericLessThan", "DateLessThan"} -> NumberOf(c) < NumberOf(p)
    [] op \in {"NumericLessThanEquals", "DateLessThanEquals"} -> NumberOf(c) <= NumberOf(p)
    [] op \in {"NumericGreaterThan", "DateGreaterThan"} -> NumberOf(c) > NumberOf(p)
    [] op \in {"NumericGreaterThanEquals", "DateGreaterThanEquals"} ->
         NumberOf(c) >= NumberOf(p)
    [] op \in {"IpAddress", "NotIpAddress"} -> CidrContains(p.s, c.s)
    [] op = "Bool" -> BoolOf(p) = BoolOf(c)

SomePolicyMatches(c) ==
  LET ps == PolList(condIn.pair.values)
  IN \E j \in 1..Len(ps) : Matches(CondOp, ps[j], c)

\* ForAnyValue and ForAllValues over the values of the context attribute
AnyValueMatches(ctx) ==
  LET cs == CtxList(ctx) IN \E i \in 1..Len(cs) : SomePolicyMatches(cs[i])
AllValuesMatch(ctx) ==
  LET cs == CtxList(ctx) IN \A i \in 1..Len(cs) : SomePolicyMatches(cs[i])

\* C6: for a non-negated operator, ForAnyValue:Op holds exactly when some
\* context value stands in the base relation to some policy value, and
\* ForAllValues:Op exactly when every context value does; one expression is
\* emitted per (attribute, values) pair.
C6_Quantifiers ==
  (CondDone /\ CondQuantifier # "None" /\ CondOp \notin NegatedOperators
     /\ CondOp \in CompareOperators \cup {"Bool"} /\ WellTyped) =>
    /\ IsOk(condOut) /\ Len(condOut.val) = 1
    /\ pc = "cond_evaluated" =>
         (condRes <=> IF CondQuantifier = "ForAnyValue" THEN AnyValueMatches(condCtx)
                      ELSE AllValuesMatch(condCtx))

\* what holds of the code: C6 for the operators build_condition hands to compare
C6_QuantifiersOfCompare ==
  (CondDone /\ CondQuantifier # "None" /\ CondOp \notin NegatedOperators
     /\ CondOp \in CompareOperators /\ WellTyped) =>
    /\ IsOk(condOut) /\ Len(condOut.val) = 1
    /\ pc = "cond_evaluated" =>
         (condRes <=> IF CondQuantifier = "ForAnyValue" THEN AnyValueMatches(condCtx)
                      ELSE AllValuesMatch(condCtx))

\* the expression build_condition gives for the same pair under quantifier q
BuiltUnder(q) == build_condition(OperatorOf(q, CondOp), <<condIn.pair>>)

IsEveryEvery(e) == e.k = "Every" /\ e.z.k = "Every" /\ e.ys.k = "Call" /\ e.z.ys.k = "List"

\* C7: for a negated operator the ForAnyValue and the ForAllValues forms emit
\* the same nested Every-over-context / Every-over-policy expression, and the
\* condition holds exactly when no context value matches any policy value.
C7_NegatedQuantifiers ==
  (CondDone /\ CondQuantifier # "None" /\ CondOp \in NegatedOperators /\ WellTyped) =>
    /\ IsOk(condOut) /\ Len(condOut.val) = 1
    /\ IsEveryEvery(condOut.val[1])
    /\ BuiltUnder("ForAnyValue") = BuiltUnder("ForAllValues")
    /\ pc = "cond_evaluated" => (condRes <=> ~AnyValueMatches(condCtx))

C7_Witness ==
  /\ pc = "cond_evaluated" /\ CondQuantifier = "ForAnyValue" /\ CondOp = "StringNotLike"
  /\ condIn.pair.values = Many(<<SString(StrA), SString(<<"B", "*">>)>>)
  /\ condCtx = <<VArr(<<VStr(<<"b", "*">>), VStr(<<"B", "a">>)>>)>>
  /\ ~condRes

\* the built expressions against another context of the same request
ResultFor(ctx) == CondHolds(condOut.val, ctx)

IsScalarCtx == condCtx # <<>> /\ condCtx[1].t # "arr"

\* C8: in a quantified condition the context attribute is iterated as a
\* sequence: a scalar v behaves like the array [v] and an absent attribute like
\* the empty array, so that on an absent attribute ForAllValues and the negated
\* quantified forms hold and the positive ForAnyValue form does not.
C8_ContextAsSequence ==
  (pc = "cond_evaluated" /\ CondQuantifier # "None") =>
    /\ IsScalarCtx => condRes = ResultFor(<<VArr(<<condCtx[1]>>)>>)
    /\ condCtx = <<>> => condRes = ResultFor(<<VArr(<<>>)>>)
    /\ condCtx = <<>> =>
         (condRes <=> ~(CondQuantifier = "ForAnyValue" /\ CondOp \notin NegatedOperators))

\* what holds of the code: C8 for the operators build_condition hands to compare
C8_ContextAsSequenceOfCompare ==
  (pc = "cond_evaluated" /\ CondQuantifier # "None" /\ CondOp # "Bool") =>
    /\ IsScalarCtx => condRes = ResultFor(<<VArr(<<condCtx[1]>>)>>)
    /\ condCtx = <<>> => condRes = ResultFor(<<VArr(<<>>)>>)
    /\ condCtx = <<>> =>
         (condRes <=> ~(CondQuantifier = "ForAnyValue" /\ CondOp \notin NegatedOperators))

\* the same condition with its single policy value written as a one-element list
BuiltAsList ==
  build_condition(condIn.operator,
                  <<[attr |-> condIn.pair.attr, values |-> Many(<<condIn.pair.values.one>>)]>>)

\* C9: under a quantifier, build_condition gives the same expression for the
\* scalar policy value v and for the list [v], whatever the quantifier and the
\* sign of the operator.
C9_SingleAsList ==
  (CondDone /\ CondQuantifier # "None" /\ condIn.pair.values.tag = "One" /\ WellTyped) =>
    condOut = BuiltAsList

\* what holds of the code: C9 for the operators build_condition hands to compare
C9_SingleAsListOfCompare ==
  (CondDone /\ CondQuantifier # "None" /\ condIn.pair.values.tag = "One"
     /\ CondOp # "Bool" /\ WellTyped) =>
    condOut = BuiltAsList

\* C10: without quantifier and with a list of policy values, a non-negated
\* operator holds exactly when the context value matches at least one policy
\* value, a negated operator exactly when it matches none.
C10_UnquantifiedList ==
  (pc = "cond_evaluated" /\ CondQuantifier = "None" /\ condIn.pair.values.tag = "Many"
     /\ IsScalarCtx) =>
    (condRes <=> IF CondOp \in NegatedOperators THEN ~SomePolicyMatches(condCtx[1])
                 ELSE SomePolicyMatches(condCtx[1]))

C10_Witness ==
  /\ pc = "cond_evaluated" /\ CondQuantifier = "None" /\ CondOp = "NumericNotEquals"
  /\ condIn.pair.values = Many(<<SInteger(1), SString(<<"2">>)>>)
  /\ condCtx = <<VNum(2)>> /\ ~condRes

(***************************************************************************)
(* Properties of the errors of translation (Spec).                         *)
(***************************************************************************)
\* the policy that add_policy stored serializes
Serializes == IsOk(serialize(policy))

\* C11: every translation error is raised by parse_iam_policy / add_policy: a
\* policy that add_policy accepted never makes Policy::serialize, and so
\* Regoer::compile, fail with a translation error.
C11_ErrorsAtTranslation ==
  pc \in {"added", "compiled", "compile_failed", "evaluated"} => Serializes

\* the error of translating one statement of the document, "none" when its
\* scopes and its conditions all translate
StatementError(st) ==
  IF ~IsOk(ParseStatement(st)) THEN ParseStatement(st).err
  ELSE RuleLines(ParseStatement(st).val).err

\* the statements of the document that err, by the given error function
Failing(d, error(_)) == {i \in 1..Len(d) : error(d[i]) # "none"}

First(S) == CHOOSE i \in S : \A j \in S : i <= j

\* the error of the loop body of parse_iam_policy alone
LoopError(st) == ParseStatement(st).err

\* C12: translation is all-or-nothing: when translating some statement of the
\* document fails, add_policy returns the error of the first such statement
\* and keeps no policy.
C12_AllOrNothing ==
  pc # "start" /\ Failing(doc, StatementError) # {}
    => /\ pc = StatementError(doc[First(Failing(doc, StatementError))])
       /\ policy = <<>>

\* what holds: the same for the errors raised in the loop of parse_iam_policy,
\* which are those of the scopes
C12_AllOrNothingOfLoop ==
  pc # "start" /\ Failing(doc, LoopError) # {}
    => /\ pc = LoopError(doc[First(Failing(doc, LoopError))])
       /\ policy = <<>>

\* the first statement at which the loop of parse_iam_policy stops has a
\* principal of one of the given forms
StopsAtPrincipal(forms) ==
  /\ pc # "start"
  /\ Failing(doc, LoopError) # {}
  /\ doc[First(Failing(doc, LoopError))].principal.form \in forms

\* the i-th rule accepts the request whoever the principal is
AnyPrincipalFires(i) ==
  \A p \in {StrA, StrB} :
    RuleFires(policy[i], Input(p, request.action, StrA, request.ctx))
      = RuleFires(policy[i], InputOf(request))

\* C13: a statement whose Principal is a map without an AWS entry, or the AWS
\* principal Any, makes add_policy return UnsupportedPrincipalType and keep no
\* rule, and translation never ends abnormally; a statement without Principal
\* gives a rule that does not constrain the principal.
C13_UnsupportedPrincipal ==
  /\ pc # "panic"
  /\ StopsAtPrincipal({"NoAWS", "Any"})
       => pc = "UnsupportedPrincipalType" /\ policy = <<>>
  /\ pc = "evaluated"
       => \A i \in 1..Len(doc) : doc[i].principal = NoPrincipal => AnyPrincipalFires(i)

\* what holds: the same without the principal maps that have no AWS entry
C13_UnsupportedAnyPrincipal ==
  /\ StopsAtPrincipal({"Any"}) => pc = "UnsupportedPrincipalType" /\ policy = <<>>
  /\ pc = "evaluated"
       => \A i \in 1..Len(doc) : doc[i].principal = NoPrincipal => AnyPrincipalFires(i)

(***************************************************************************)
(* Properties of the errors of build_condition (SpecCond).                 *)
(***************************************************************************)
\* the operators the translation supports: Bool, String*, Numeric*, Date*,
\* IpAddress and NotIpAddress
SupportedList ==
  {"Bool", "IpAddress", "NotIpAddress",
   "StringEquals", "StringNotEquals", "StringEqualsIgnoreCase",
   "StringNotEqualsIgnoreCase", "StringLike", "StringNotLike",
   "NumericEquals", "NumericNotEquals", "NumericLessThan", "NumericLessThanEquals",
   "NumericGreaterThan", "NumericGreaterThanEquals",
   "DateEquals", "DateNotEquals", "DateLessThan", "DateLessThanEquals",
   "DateGreaterThan", "DateGreaterThanEquals"}

\* C14: a condition whose operator is outside the supported list gives the
\* error UnsupportedFunction and no expression; with well-typed values, every
\* operator of the list gives one expression for the attribute.
C14_UnsupportedOperator ==
  CondDone =>
    IF CondOp \in SupportedList
    THEN WellTyped => IsOk(condOut) /\ Len(condOut.val) = 1
    ELSE condOut = Err("UnsupportedFunction")

C14_Witness ==
  CondDone /\ CondOp = "ArnLike" /\ condOut = Err("UnsupportedFunction")

(***************************************************************************)
(* Properties of substitute_variables and resolve (SpecStr).               *)
(***************************************************************************)
StrDone == pc = "substituted"

\* the number of occurrences of "%s" in a format string
Placeholders(fmt) ==
  Cardinality({i \in 1..(Len(fmt) - 1) : fmt[i] = "%" /\ fmt[i + 1] = "s"})

\* C15: whenever substitute_variables returns Str::Template(fmt, vars), the
\* number of occurrences of "%s" in fmt equals the length of vars, for
\* templates whose literal text may hold '%' and 's'.
C15_PlaceholdersMatchVars ==
  (StrDone /\ IsOk(strOut) /\ strOut.val.k = "Tmpl")
    => Placeholders(strOut.val.s) = Len(strOut.val.xs)

\* what holds: the same for templates without a literal '%'
C15_PlaceholdersMatchVarsWithoutPercent ==
  (StrDone /\ IsOk(strOut) /\ strOut.val.k = "Tmpl" /\ ~Contains(TemplateOf(strIn), "%"))
    => Placeholders(strOut.val.s) = Len(strOut.val.xs)

\* the template is made of literal characters, escapes and variables only
OnlyEscapesAndVariables == \A i \in 1..Len(strIn) : strIn[i].kind \in {"lit", "esc", "var"}

\* the text expected for the fragments: the character of a literal or of an
\* escape, and a placeholder for a variable
RECURSIVE ExpectedText(_)
ExpectedText(parts) ==
  IF parts = <<>> THEN <<>>
  ELSE (IF Head(parts).kind = "var" THEN <<"%", "s">> ELSE Head(parts).x)
       \o ExpectedText(Tail(parts))

\* the variables expected for the fragments, in order
RECURSIVE ExpectedVars(_)
ExpectedVars(parts) ==
  IF parts = <<>> THEN <<>>
  ELSE (IF Head(parts).kind = "var" THEN <<Var(Head(parts).x)>> ELSE <<>>)
       \o ExpectedVars(Tail(parts))

\* C16: each escape ${*}, ${?}, ${$}, with or without whitespace inside the
\* braces, contributes its single character to the text and nothing to vars:
\* a template whose interpolations are all escapes gives Str::Plain, and one
\* that mixes escapes and variables gives a Template whose vars are the
\* variables only.
C16_EscapeFidelity ==
  (StrDone /\ OnlyEscapesAndVariables) =>
    strOut = Ok(IF ExpectedVars(strIn) = <<>> THEN Plain(ExpectedText(strIn))
                ELSE Tmpl(ExpectedText(strIn), ExpectedVars(strIn)))

C16_Witness ==
  /\ StrDone /\ Len(strIn) = 3
  /\ strIn[1].kind = "esc" /\ strIn[2].kind = "var" /\ strIn[3].x = <<"?">>
  /\ IsOk(strOut) /\ strOut.val.k = "Tmpl" /\ Len(strOut.val.xs) = 1

\* the bodies of the interpolations of a template from offset pos on, in
\* order: the text between each "${" and the first "}" after it
RECURSIVE Bodies(_, _)
Bodies(t, pos) ==
  IF Find(t, DOLLAR_BRACE, pos) < 0 \/ Find(t, <<"}">>, Find(t, DOLLAR_BRACE, pos) + 2) < 0
  THEN <<>>
  ELSE <<Slice(t, Find(t, DOLLAR_BRACE, pos) + 2,
               Find(t, <<"}">>, Find(t, DOLLAR_BRACE, pos) + 2))>>
       \o Bodies(t, Find(t, <<"}">>, Find(t, DOLLAR_BRACE, pos) + 2) + 1)

IsNested(body) == Find(body, DOLLAR_BRACE, 0) >= 0

StrBodies == Bodies(TemplateOf(strIn), 0)

\* C17: substitute_variables returns NestedInterpolation whenever the body of
\* an interpolation contains "${", wherever in the body: the template is never
\* accepted, and the error is NestedInterpolation when the body is the first
\* of the template.
C17_NestedRejected ==
  StrDone =>
    /\ (\E i \in 1..Len(StrBodies) : IsNested(StrBodies[i])) => ~IsOk(strOut)
    /\ (StrBodies # <<>> /\ IsNested(StrBodies[1])) => strOut = Err("NestedInterpolation")

\* what holds: the same for bodies without a quoted default
C17_NestedRejectedWithoutDefault ==
  (StrDone /\ ~Contains(TemplateOf(strIn), "'")) =>
    /\ (\E i \in 1..Len(StrBodies) : IsNested(StrBodies[i])) => ~IsOk(strOut)
    /\ (StrBodies # <<>> /\ IsNested(StrBodies[1])) => strOut = Err("NestedInterpolation")

Slashes(s) == Cardinality({i \in 1..Len(s) : s[i] = "/"})

\* q:k is input.q.k, q:a/b is input.q.a.b and k is input.k
ResolvesNames ==
  pc = "resolved" =>
    /\ attrIn = AttrQK => attrOut = Ok(Var(<<"i", "n", "p", "u", "t", ".", "q", ".", "k">>))
    /\ attrIn = [qualifier |-> <<QName>>, value |-> <<"a", "/", "b">>]
         => attrOut = Ok(Var(<<"i", "n", "p", "u", "t", ".", "q", ".", "a", ".", "b">>))
    /\ attrIn = AttrK => attrOut = Ok(Var(<<"i", "n", "p", "u", "t", ".", "k">>))

\* a template with the variable ${a/b/c} is not accepted
RejectsSlashesInVariable ==
  (StrDone /\ \E i \in 1..Len(strIn) : strIn[i].kind = "slashes") => ~IsOk(strOut)

\* C18: a qualified name q:name resolves to input.q.name, q:a/b to
\* input.q.a.b and an unqualified name to input.name; a name with more than
\* one '/' is never accepted, neither by resolve as a condition attribute nor
\* by substitute_variables as an interpolated variable.
C18_PathNormalization ==
  /\ ResolvesNames
  /\ RejectsSlashesInVariable
  /\ (pc = "resolved" /\ Slashes(attrIn.value) > 1) => ~IsOk(attrOut)

\* what holds: the same without the rejection by resolve
C18_PathNormalizationOfAccepted == ResolvesNames /\ RejectsSlashesInVariable

(***************************************************************************)
(* Properties of the emitted program (Spec).                               *)
(***************************************************************************)
\* the expressions of the conditions of a statement in their stored order,
\* operator by operator
RECURSIVE ExpectedConditions(_)
ExpectedConditions(conditions) ==
  IF conditions = <<>> THEN <<>>
  ELSE build_condition(Head(conditions).operator, Head(conditions).pairs).val
       \o ExpectedConditions(Tail(conditions))

\* the number of (attribute, values) pairs of the conditions of a statement
RECURSIVE PairCount(_)
PairCount(conditions) ==
  IF conditions = <<>> THEN 0
  ELSE Len(Head(conditions).pairs) + PairCount(Tail(conditions))

\* the conjuncts of the scopes of a statement: principal, action, resource
ExpectedScopes(st) ==
  GenerateScope("Principal", ParsePrincipal(st.principal).val).val
  \o GenerateScope("Action", ParseScope(st.action).val).val
  \o GenerateScope("Resource", ParseScope(st.resource).val).val

\* the block of a statement: head, scope conjuncts, conditions, closing brace
ExpectedBlock(st) ==
  <<IF st.effect = "Allow" THEN "permit" ELSE "deny">>
  \o ExpectedScopes(st) \o ExpectedConditions(st.condition) \o <<"}">>

\* C20: Policy::serialize emits the preamble first and then one rule block per
\* statement, the i-th block translating the i-th statement with head permit
\* for Allow and deny for Deny; in a block the scope conjuncts come in the
\* order principal, action, resource, then the conditions in their stored
\* order, one expression per (attribute, values) pair.
C20_SerializeOrder ==
  pc \in {"compiled", "evaluated"} =>
    /\ Len(program) = 1 + Len(doc)
    /\ program[1] = BASE
    /\ \A i \in 1..Len(doc) :
         /\ program[i + 1] = ExpectedBlock(doc[i])
         /\ Len(program[i + 1]) = 2 + Len(ExpectedScopes(doc[i])) + PairCount(doc[i].condition)

C20_Witness ==
  /\ pc = "compiled" /\ Len(doc) = 2
  /\ doc[1].effect = "Deny" /\ program[2][1] = "deny"
  /\ doc[2].principal.form = "One" /\ Len(doc[2].condition) = 2
  /\ Len(program[3]) = 7 /\ program[3][1] = "permit"
  /\ program[3][2].l = Var(input_var("Principal"))
  /\ program[3][3].l = Var(input_var("Action"))
  /\ program[3][4].l = Var(input_var("Resource"))
  /\ program[3][5] = build_condition(doc[2].condition[1].operator, doc[2].condition[1].pairs).val[1]
  /\ program[3][6].k = "Call"

(***************************************************************************)
(* Claims on the builder over several calls (SpecBuilder).                 *)
(***************************************************************************)
\* the number of policies the first i calls have added
AddedBy(i) ==
  Cardinality({j \in 1..i : calls[j].kind = "policy" /\ calls[j].ok})

\* the i-th call is an add_policy of a document whose Statement is one object
SingleObjectCall(i) == calls[i].kind = "policy" /\ calls[i].doc.form = "One"

\* C21: a policy whose Statement is a single object is added and translated
\* into exactly one rule, the rule of the same statement in an array of one
C21_SingleObjectStatement ==
  \A i \in 1..Len(calls) :
    SingleObjectCall(i) =>
      /\ calls[i].ok
      /\ Len(policies[AddedBy(i)]) = 1
      /\ policies[AddedBy(i)] =
           parse_iam_policy([form |-> "All", statement |-> calls[i].doc.statement]).val

\* the statements of the documents that the successful add_policy calls gave
RECURSIVE AddedStatements(_)
AddedStatements(cs) ==
  IF cs = <<>> THEN <<>>
  ELSE (IF Head(cs).kind = "policy" /\ Head(cs).ok THEN Head(cs).doc.statement ELSE <<>>)
       \o AddedStatements(Tail(cs))

\* the single policy whose statement list is the concatenation
Concatenation == parse_iam_policy([form |-> "All", statement |-> AddedStatements(calls)])

\* the engine failed in the last operation
EngineFailed == outcome \in {"GenericError", "panic"}

\* C22: with one policy or more added and an engine that does not fail,
\* compile succeeds and each decision is the decision of the concatenation
C22_ManyPolicies ==
  /\ pc = "consumed" /\ Len(policies) >= 1 => EngineFailed
  /\ pc = "evaluated" /\ Len(policies) >= 1 /\ ~EngineFailed =>
       decision = Allow(Concatenation.val, InputOf(request))

\* the same for builders whose added documents are arrays of statements
\* that translate without error
C22_ManyPoliciesOfArrays ==
  (/\ \A i \in 1..Len(calls) : calls[i].ok => calls[i].doc.form = "All"
   /\ IsOk(SerializeAll(policies))) =>
  C22_ManyPolicies

C22_ArraysWitness ==
  /\ pc = "evaluated" /\ Len(policies) = 2 /\ ~EngineFailed
  /\ policies[1] # policies[2] /\ ~decision
  /\ HeadTrue("permit", Concatenation.val, InputOf(request))

\* C23: a compile that fails although every policy serializes has failed in
\* the engine, and returns Err(GenericError); so does an evaluate that
\* fails; neither operation aborts
C23_EngineFailures ==
  [][/\ (pc = "builder" /\ pc' = "consumed" /\ IsOk(SerializeAll(policies))) =>
          outcome' = "GenericError"
     /\ pc' = "evaluated" => outcome' \in {"ok", "GenericError"}]_vars

\* the part on the programs and on evaluate: no failure but the entrypoint's
\* is anything else than GenericError
C23_EngineFailuresButEntrypoint ==
  [][/\ (pc = "builder" /\ pc' = "consumed" /\ IsOk(SerializeAll(policies))) =>
          outcome' \in {"GenericError", "panic"}
     /\ (pc' = "consumed" /\ outcome' = "panic") => CompileOutcome(policies, "ok") = "ok"
     /\ pc' = "evaluated" => outcome' \in {"ok", "GenericError"}]_vars

\* the policies of the successful add_policy calls, in call order
RECURSIVE AddedPolicies(_)
AddedPolicies(cs) ==
  IF cs = <<>> THEN <<>>
  ELSE (IF Head(cs).kind = "policy" /\ Head(cs).ok
        THEN <<parse_iam_policy(Head(cs).doc).val>> ELSE <<>>)
       \o AddedPolicies(Tail(cs))

\* C26: the builder's list is the policies of the successful add_policy
\* calls in call order, whatever failed add_policy and add_data calls came
\* between, and the Evaluator of compile holds the same list in the same order
C26_PolicyListFrame ==
  /\ policies = AddedPolicies(calls)
  /\ pc \in {"compiled", "evaluated"} => evaluator = AddedPolicies(calls)

\* a builder that still works after a failed call:
\* the failed call is followed by a successful one and by compile
C26_Witness ==
  /\ pc = "compiled" /\ Len(calls) = 2
  /\ ~calls[1].ok /\ calls[2].kind = "policy" /\ calls[2].ok
  /\ Len(evaluator) = 1 /\ evaluator[1] # <<>>

(***************************************************************************)
(* Claims on the scan of substitute_variables (SpecStr).                   *)
(***************************************************************************)
\* the text expected for the fragments of an accepted template: a closed
\* segment gives its character when it is an escape and a placeholder when
\* not, a literal is copied, and from an unclosed "${" on the template is
\* copied as it is
RECURSIVE SegmentText(_)
SegmentText(parts) ==
  IF parts = <<>> THEN <<>>
  ELSE IF Head(parts).kind = "open" THEN TemplateOf(parts)
  ELSE (IF Head(parts).kind \in {"lit", "esc"} THEN Head(parts).x ELSE <<"%", "s">>)
       \o SegmentText(Tail(parts))

\* the variable of a closed segment that is no escape: input.<path> for a
\* plain variable, and for one with a default the object.get call
SegmentVar(part) ==
  IF part.kind = "var" THEN Var(part.x) ELSE substitute_variables(part.s).val.xs[1]

\* the variables expected, segment by segment up to an unclosed "${"
RECURSIVE SegmentVars(_)
SegmentVars(parts) ==
  IF parts = <<>> \/ Head(parts).kind = "open" THEN <<>>
  ELSE (IF Head(parts).kind \in {"lit", "esc"} THEN <<>> ELSE <<SegmentVar(Head(parts))>>)
       \o SegmentVars(Tail(parts))

\* the vars of a result: those of a Template, none for a plain string
VarsOf(str) == IF str.k = "Tmpl" THEN str.xs ELSE <<>>

\* C24: for an accepted template the text is the input with each closed
\* segment replaced (an escape by its character, any other by %s) and the
\* other characters copied in order, vars are the variables of the segments
\* from left to right, and from an unclosed "${" on the input is copied
\* verbatim with the variables collected so far kept
C24_SegmentwiseOutput ==
  (StrDone /\ IsOk(strOut)) =>
    /\ strOut.val.s = SegmentText(strIn)
    /\ VarsOf(strOut.val) = SegmentVars(strIn)

\* a variable, a literal, then an unclosed "${"
C24_Witness ==
  /\ StrDone /\ IsOk(strOut) /\ Len(strIn) = 3
  /\ strIn[1].kind = "var" /\ strIn[2].kind = "lit" /\ strIn[3].kind = "open"
  /\ Len(VarsOf(strOut.val)) = 1

(***************************************************************************)
(* Claims on the values and the quantifiers of build_condition (SpecCond). *)
(***************************************************************************)
\* a pair of the operator's type, to stand before the pair of the condition
GoodPair ==
  [attr |-> AttrK, values |-> One(CHOOSE v \in PolicyUniverse(CondOp) : TakenBy(CondOp, v))]

\* C25: Bool takes a boolean and the strings "true" and "false", a numeric
\* operator an integer and a string that parses as a 64-bit integer, any
\* other operator a string; a condition with a value of another kind, alone
\* or in a list, gives InvalidType for the whole condition and no expression,
\* also when a pair that converts comes first
C25_Coercion ==
  (CondDone /\ CondOp \in SupportedList) =>
    /\ WellTyped => IsOk(condOut) /\ Len(condOut.val) = 1
    /\ ~WellTyped => condOut = Err("InvalidType")
    /\ ~WellTyped =>
         /\ IsOk(build_condition(condIn.operator, <<GoodPair>>))
         /\ build_condition(condIn.operator, <<GoodPair, condIn.pair>>) = Err("InvalidType")

\* a list whose second number is i64::MAX + 1
C25_Witness ==
  /\ CondDone /\ CondOp = "NumericEquals" /\ condIn.pair.values.tag = "Many"
  /\ Len(condIn.pair.values.list) = 2
  /\ condIn.pair.values.list[1] = SInteger(1)
  /\ condIn.pair.values.list[2].t = "String" /\ Len(condIn.pair.values.list[2].s) = 19
  /\ condOut = Err("InvalidType")

\* the booleans of the policy values, as literals
RECURSIVE BoolLiterals(_)
BoolLiterals(l) ==
  IF l = <<>> THEN <<>> ELSE <<BoolE(BoolOf(Head(l)))>> \o BoolLiterals(Tail(l))

\* the context attribute of the condition: input.q.k or input.k
CondAttribute ==
  Var(INPUT_PREFIX \o (IF condIn.pair.attr = AttrQK THEN <<"q", ".", "k">> ELSE <<"k">>))

C29_EmptyListScope ==
  (ScopeDone /\ ScopeValue = Many(<<>>)) =>
    /\ IsOk(scopeOut)
    /\ scopeOut.val.xs = <<>>
    /\ pc = "scope_evaluated" => scopeRes

C29_Witness ==
  /\ pc = "scope_evaluated" /\ ScopeValue = Many(<<>>)
  /\ scopeIn.scope.neg /\ scopeIn.kind = "Action" /\ scopeReq = StrB /\ scopeRes

\* the decision for the request of the policy with the statements d
DecisionOf(d) ==
  Allow(parse_iam_policy([form |-> "All", statement |-> d]).val, InputOf(request))

\* the statements of the document but the last, and in the opposite order
Prefix(d) == SubSeq(d, 1, Len(d) - 1)
Reversed(d) == [i \in 1..Len(d) |-> d[Len(d) + 1 - i]]

\* C27: the policy being its statements but the last with the last appended:
\* an appended Allow statement never turns the decision from true to false,
\* an appended Deny statement never from false to true, and the statements
\* in another order give the same decision
C27_Monotonicity ==
  (pc = "evaluated" /\ doc # <<>>) =>
    /\ doc[Len(doc)].effect = "Allow" => (DecisionOf(Prefix(doc)) => decision)
    /\ doc[Len(doc)].effect = "Deny" => (decision => DecisionOf(Prefix(doc)))
    /\ decision = DecisionOf(Reversed(doc))

\* an Allow statement that turns the decision to true, after a statement
\* that does not fire
C27_Witness ==
  /\ pc = "evaluated" /\ Len(doc) = 2 /\ doc[1] # doc[2]
  /\ doc[2].effect = "Allow" /\ ~StatementFires(1) /\ StatementFires(2)
  /\ ~DecisionOf(Prefix(doc)) /\ decision /\ DecisionOf(Reversed(doc))

(***************************************************************************)
(* Claims on the loop of substitute_variables (SpecScanFair).              *)
(***************************************************************************)
\* last_end <= pos <= length of the template
ScanBounds == scanLastEnd <= scanPos /\ scanPos <= Len(TemplateOf(strIn))

\* an iteration leaves the loop, or moves pos forward to one past a "}"
ScanProgress ==
  pc = "loop" =>
    \/ pc' = "scanned"
    \/ pc' = "loop" /\ scanPos' > scanPos /\ TemplateOf(strIn)[scanPos'] = "}"

\* what the loop returns is what substitute_variables gives for the template
ScanReturns == pc = "scanned" => strOut = substitute_variables(TemplateOf(strIn))

\* C28: the loop of substitute_variables terminates on every template: each
\* iteration leaves the loop or moves pos strictly forward to one past a
\* closing "}", and last_end <= pos <= length of the template throughout
C28_ScanTerminates ==
  /\ [](ScanBounds /\ ScanReturns)
  /\ [][ScanProgress]_vars
  /\ <>(pc = "scanned")

\* two iterations that move on, and a third that leaves at an unclosed "${"
C28_Witness ==
  /\ pc = "scanned" /\ Len(strIn) = 3 /\ strIn[3].kind = "open"
  /\ Len(collected) = 2 /\ IsOk(strOut)
  /\ 0 < scanPos /\ scanPos < Len(TemplateOf(strIn))

====
